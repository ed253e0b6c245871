--------------------------- MODULE CheckInPromise ---------------------------
(***************************************************************************)
(* What a kiosk promises a student whose check-in it queued: the event     *)
(* stays kept by the tablet until the server holds it, as an attendance or *)
(* as evidence for staff, or has refused it by name; what the server holds *)
(* it holds for good.                                                      *)
(***************************************************************************)
CONSTANT Tap
VARIABLE promise

Init == promise = [t \in Tap |-> "open"]

Keep(t)   == promise[t] = "open" /\ promise' = [promise EXCEPT ![t] = "kept"]
Hold(t)   == promise[t] # "held" /\ promise' = [promise EXCEPT ![t] = "held"]
Refuse(t) == promise[t] = "kept" /\ promise' = [promise EXCEPT ![t] = "refused"]

Next == \E t \in Tap : Keep(t) \/ Hold(t) \/ Refuse(t)

Spec == Init /\ [][Next]_promise
=============================================================================
