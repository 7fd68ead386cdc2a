---------------------------- MODULE ForgetfulMap ----------------------------
(***************************************************************************)
(* What the artifact cache promises its callers (`Cache::get`, `put`,      *)
(* `remove` of src/src/cache.rs), with no word about tiers: a map that may *)
(* forget, but that never answers with anything else than the last put.    *)
(* Only where the storage refused to take a write or a removal may an      *)
(* older entry of the same key still come back.                            *)
(***************************************************************************)
EXTENDS FiniteSets

CONSTANTS Key, Entry, NoEntry, NoPut

VARIABLES
  last,      \* what was put under the key last, NoEntry after a removal
  copies,    \* the entries that a read of the key may still find
  pending,   \* the put that has begun and not ended
  tainted    \* keys whose last write or removal the storage refused

vars == <<last, copies, pending, tainted>>

Init ==
  /\ last = [k \in Key |-> NoEntry]
  /\ copies = [k \in Key |-> {}]
  /\ pending = NoPut
  /\ tainted = {}

\* Of the other keys, copies may get lost at any time.
OthersMayBeLost(k) == \A j \in Key \ {k} : copies'[j] \subseteq copies[j]

Begin ==
  /\ pending = NoPut
  /\ pending' \in Key \X Entry
  /\ UNCHANGED <<last, copies, tainted>>

\* The new entry can be read beside the old one until the put returns.
Store ==
  /\ pending # NoPut
  /\ LET k == pending[1]
     IN  /\ copies'[k] \subseteq copies[k] \cup {pending[2]}
         /\ OthersMayBeLost(k)
         /\ tainted' = tainted \ {k}
  /\ UNCHANGED <<last, pending>>

\* After it, only the new one can, if the storage took it.
End(k) ==
  /\ last'[k] \in Entry
  /\ last' = [last EXCEPT ![k] = last'[k]]
  /\ pending \in {<<k, last'[k]>>, NoPut}
  /\ pending' = NoPut
  /\ \/ tainted' = tainted /\ copies'[k] \subseteq (IF k \in tainted THEN copies[k] ELSE {}) \cup {last'[k]}
     \/ tainted' = tainted \cup {k} /\ copies'[k] \subseteq copies[k] \cup {last'[k]}
  /\ OthersMayBeLost(k)

Remove(k) ==
  /\ pending = NoPut
  /\ last' = [last EXCEPT ![k] = NoEntry]
  /\ \/ copies'[k] = {} /\ tainted' = tainted \ {k}
     \/ copies'[k] \subseteq copies[k] /\ tainted' = tainted \cup {k}
  /\ OthersMayBeLost(k)
  /\ UNCHANGED pending

Forget ==
  /\ \A k \in Key : copies'[k] \subseteq copies[k]
  /\ UNCHANGED <<last, pending, tainted>>

\* A put that is cut short has happened or has not, and whichever it is, reads find no
\* trace of the other.
Crash ==
  /\ \A k \in Key : copies'[k] \subseteq copies[k]
  /\ pending' = NoPut
  /\ \/ UNCHANGED last
     \/ pending # NoPut /\ last' = [last EXCEPT ![pending[1]] = pending[2]]
  /\ pending # NoPut => pending[1] \in tainted \/ copies'[pending[1]] \subseteq {last'[pending[1]]}
  /\ UNCHANGED tainted

Next ==
  \/ Begin
  \/ Store
  \/ \E k \in Key : End(k) \/ Remove(k)
  \/ Forget
  \/ Crash

Spec == Init /\ [][Next]_vars

\* A read finds the last put or nothing. Only the copies of a key with a put under way
\* are not told apart.
ReadsTheLast ==
  \A k \in Key \ tainted :
    copies[k] \subseteq {last[k]} \/ (pending # NoPut /\ pending[1] = k)
=============================================================================
