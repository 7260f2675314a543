----------------------------- MODULE SlotExpiry -----------------------------
(***************************************************************************)
(* The secure OD against real time.  armed_at and the port clock are       *)
(* 16-bit milliseconds, so slot_is_fresh_for computes a slot's age modulo  *)
(* the clock range; idle records the age a clock that never wraps would    *)
(* show.                                                                   *)
(***************************************************************************)
EXTENDS SecureOd

CONSTANT MaxIdle    \* bound: the longest real age a slot in use reaches

ASSUME MaxIdleAssumption == MaxIdle \in Nat

VARIABLE idle       \* real age of each entry's read and write arming

expiryVars == <<vars, idle>>

\* A handler that keeps a slot alive stores armed_at and changes the slot.
Touch ==
    idle' = [e \in Entry |-> [r |-> IF rd'[e] = rd[e] THEN idle[e].r ELSE 0,
                              w |-> IF wr'[e] = wr[e] THEN idle[e].w ELSE 0]]

\* Time passes for the slots in use.
Age ==
    /\ \A e \in Entry : idle[e].r < MaxIdle /\ idle[e].w < MaxIdle
    /\ Tick
    /\ idle' = [e \in Entry |-> [r |-> IF rd[e].in_use THEN idle[e].r + 1 ELSE 0,
                                 w |-> IF wr[e].in_use THEN idle[e].w + 1 ELSE 0]]

ExpiryInit == Init /\ idle = [e \in Entry |-> [r |-> 0, w |-> 0]]

ExpiryNext ==
    \/ Age
    \/ (Serve \/ Decommission \/ Restart) /\ Touch

ExpirySpec == ExpiryInit /\ [][ExpiryNext]_expiryVars

-----------------------------------------------------------------------------

\* The clock's verdict on a slot armed t ago agrees with its real age.
AgreesWith(t, age) ==
    /\ SlotFresh(t) <=> age <= ChallengeTimeout
    /\ SessionFresh(t) <=> age <= SessionTimeout

\* slot_is_fresh, session_is_fresh: a slot in use is honoured, and held
\* against other clients, exactly as long as it has really been idle for no
\* longer than the challenge timeout or the session idle timeout.
ExpiryTruthful ==
    \A e \in Entry :
        /\ rd[e].in_use => AgreesWith(rd[e].armed_at, idle[e].r)
        /\ wr[e].in_use => AgreesWith(wr[e].armed_at, idle[e].w)
=============================================================================
