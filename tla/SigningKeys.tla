----------------------------- MODULE SigningKeys -----------------------------
(***************************************************************************)
(* The key set of the viewer's JWTValidator.  The set is fetched from the  *)
(* issuer when the validator is made, again every five minutes by a        *)
(* goroutine, and again by a request whose token names a key that is not   *)
(* in the set, at most once in thirty seconds.  The fetches run outside    *)
(* the lock and store what they got under it.                              *)
(***************************************************************************)
EXTENDS Naturals, FiniteSets

CONSTANTS Request,        \* requests with a token
          MaxKey          \* bound: keys the issuer makes

VARIABLES published,  \* the keys the issuer publishes
          jwks,       \* the set the validator holds
          cooling,    \* a refetch began less than thirty seconds ago
          refresh,    \* the set the refresh goroutine has fetched
          req,        \* each request
          tokens      \* keys refused for not being in the set while they were published

keyVars == <<published, jwks, cooling, refresh, req, tokens>>

None == {}
NoRequestYet == [pc |-> "new", kid |-> 0, fresh |-> None]

KeysInit ==
    /\ published = {1} /\ jwks = {1} /\ cooling = FALSE /\ refresh = None
    /\ req = [r \in Request |-> NoRequestYet] /\ tokens = {}

\* The issuer adds a key, or withdraws the oldest one.
Newest(S) == CHOOSE k \in S : \A j \in S : j <= k
Oldest(S) == CHOOSE k \in S : \A j \in S : k <= j
Rotate ==
    /\ \/ Newest(published) < MaxKey /\ published' = published \cup {Newest(published) + 1}
       \/ Cardinality(published) > 1 /\ published' = published \ {Oldest(published)}
    /\ UNCHANGED <<jwks, cooling, refresh, req, tokens>>

\* A plausible bug: a refresh only adds keys.
RefreshStoreAdds ==
    /\ refresh # None
    /\ jwks' = jwks \cup refresh /\ refresh' = None
    /\ UNCHANGED <<published, cooling, req, tokens>>

\* startRefresh: the ticker, the fetch and the store.  A fetch that fails leaves
\* the set as it is.
RefreshFetch == /\ refresh = None /\ refresh' = published
                /\ UNCHANGED <<published, jwks, cooling, req, tokens>>
RefreshStore == /\ refresh # None
                /\ jwks' = refresh /\ refresh' = None
                /\ UNCHANGED <<published, cooling, req, tokens>>

-----------------------------------------------------------------------------
Decided(r, kid, found) ==
    /\ req' = [req EXCEPT ![r] = [NoRequestYet EXCEPT !.pc = IF found THEN "valid" ELSE "invalid",
                                                      !.kid = kid]]
    /\ tokens' = IF ~found /\ kid \in published THEN tokens \cup {kid} ELSE tokens

\* Validate: the key of the token is looked up in the set.
Validate(r) ==
    /\ req[r].pc = "new"
    /\ \E kid \in 1 .. MaxKey :
         IF kid \in jwks
         THEN Decided(r, kid, TRUE)
         ELSE /\ req' = [req EXCEPT ![r].pc = "missed", ![r].kid = kid]
              /\ UNCHANGED tokens
    /\ UNCHANGED <<published, jwks, cooling, refresh>>

\* refetchKeyID: the set is looked at again while it cools, else fetched.
Refetch(r) ==
    /\ req[r].pc = "missed"
    /\ IF cooling
       THEN Decided(r, req[r].kid, req[r].kid \in jwks) /\ UNCHANGED cooling
       ELSE /\ cooling' = TRUE
            /\ req' = [req EXCEPT ![r].pc = "fetching"] /\ UNCHANGED tokens
    /\ UNCHANGED <<published, jwks, refresh>>

\* A fetch that fails refuses the token.
RefetchFetch(r) ==
    /\ req[r].pc = "fetching"
    /\ \/ /\ req' = [req EXCEPT ![r].pc = "fetched", ![r].fresh = published]
          /\ UNCHANGED tokens
       \/ /\ req' = [req EXCEPT ![r].pc = "invalid"]
          /\ UNCHANGED tokens
    /\ UNCHANGED <<published, jwks, cooling, refresh>>

RefetchStore(r) ==
    /\ req[r].pc = "fetched"
    /\ jwks' = req[r].fresh
    /\ Decided(r, req[r].kid, req[r].kid \in req[r].fresh)
    /\ UNCHANGED <<published, cooling, refresh>>

\* Thirty seconds have passed.
Cooled == /\ cooling /\ cooling' = FALSE
          /\ UNCHANGED <<published, jwks, refresh, req, tokens>>

KeysNext ==
    \/ Rotate \/ RefreshFetch \/ RefreshStore \/ Cooled
    \/ \E r \in Request : Validate(r) \/ Refetch(r) \/ RefetchFetch(r) \/ RefetchStore(r)

\* The ticker goes on and the issuer answers; requests that have begun end.
KeysFairness ==
    /\ WF_keyVars(RefreshFetch) /\ WF_keyVars(RefreshStore)
    /\ \A r \in Request : WF_keyVars(Refetch(r) \/ RefetchFetch(r) \/ RefetchStore(r))

KeysSpec == KeysInit /\ [][KeysNext]_keyVars /\ KeysFairness

-----------------------------------------------------------------------------
\* A set fetched before a rotation may be stored after a later one, and the
\* validator is behind the issuer again; but if the issuer's keys stay as they
\* are, the validator comes to hold them.
KeysConverge == \A S \in SUBSET (1 .. MaxKey) : <>[](published = S) => <>[](jwks = S)

\* No valid token is refused because of a rotation.
RotationRefusesNobody == tokens = {}
=============================================================================
