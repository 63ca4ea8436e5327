----------------------------- MODULE FinalEffects -----------------------------
(* What the finalization of a job promises the outside world: a bounded number  *)
(* of posts for each scene, then one film, then one request for the next job.   *)
EXTENDS Naturals

CONSTANTS
  Items,       \* what has to be posted
  Configured,  \* whether anything is posted at all
  Limit        \* how often each item may be posted

VARIABLES posted, published, requests

Init == posted = [i \in Items |-> 0] /\ published = FALSE /\ requests = 0

Post(i) ==
  /\ Configured /\ posted[i] < Limit[i]
  /\ posted' = [posted EXCEPT ![i] = @ + 1]
  /\ UNCHANGED <<published, requests>>

Publish ==
  /\ ~published /\ (Configured => \A i \in Items : posted[i] >= 1)
  /\ published' = TRUE /\ UNCHANGED <<posted, requests>>

Ask ==
  /\ published /\ requests = 0
  /\ requests' = 1 /\ UNCHANGED <<posted, published>>

Next == Publish \/ Ask \/ \E i \in Items : Post(i)

Spec == Init /\ [][Next]_<<posted, published, requests>>
=============================================================================
