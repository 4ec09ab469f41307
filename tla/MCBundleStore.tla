---------------------------- MODULE MCBundleStore ----------------------------
(* BundleStore on small sets; the configurations choose who signs.         *)
EXTENDS BundleStore
=============================================================================
