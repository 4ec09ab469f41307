---------------------------- MODULE MCBundleLock ----------------------------
(* BundleLock on small sets; the configurations choose who unlinks.        *)
EXTENDS BundleLock
=============================================================================
