------------------------------ MODULE BeatLink ------------------------------
(***************************************************************************)
(* harness/beat_link.py: the device's side of the heartbeat, as functions  *)
(* from one state of a BeatLink and one input to the state it leaves and   *)
(* what it asks its caller to do.  Times are kept as ages in seconds, the  *)
(* interval at which it beats; they stop past Grace, where nothing depends *)
(* on them any more.                                                       *)
(***************************************************************************)
EXTENDS Naturals

CONSTANTS
    LostAfter,   \* LINK_LOST_S
    Grace,       \* GRACE_S
    HelloEvery,  \* HELLO_INTERVAL_S, repeated until the device is armed
    SeqWrap,     \* _SEQ_WRAP
    None

ASSUME BeatLinkAssumption ==
    /\ {LostAfter, Grace, HelloEvery, SeqWrap} \subseteq Nat \ {0}
    /\ LostAfter < Grace /\ None \notin Nat

Older(age) == IF age = None \/ age > Grace THEN age ELSE age + 1

NewLink == [state |-> "down", armed |-> FALSE, epoch |-> None, up |-> FALSE,
            seq |-> 0, heard |-> 0, lost |-> None, hello |-> None]

Aged(b) == [b EXCEPT !.heard = Older(@), !.lost = Older(@),
                     !.hello = IF @ \in {0, None} THEN @ ELSE @ - 1]

\* link_up says hello and sends beat 0; the beats of a link follow it.
LinkUp(b) ==
    LET linked == b.state = "linked" IN
    [b EXCEPT !.up = TRUE, !.seq = 1 % SeqWrap, !.hello = HelloEvery,
              !.armed = @ /\ linked, !.heard = IF linked THEN @ ELSE 0,
              !.state = IF @ = "down" THEN "linking" ELSE @]

LinkDown(b) ==
    [b EXCEPT !.up = FALSE, !.armed = FALSE, !.hello = None,
              !.lost = IF b.state = "linked" THEN b.heard ELSE @,
              !.state = CASE @ = "linked" -> "looking" [] @ = "linking" -> "down"
                          [] OTHER -> @]

OnControlMessage(b) == IF b.up THEN [b EXCEPT !.heard = 0] ELSE b

\* Faulty variant: an epoch is remembered for the link and not for the process.
NewEpochOnThisLink(b, e) == b.up /\ b.armed /\ b.epoch # e

NewEpoch(b, e) == b.up /\ b.epoch # None /\ b.epoch # e

OnBeatReply(b, e) ==
    IF b.up THEN [b EXCEPT !.heard = 0, !.epoch = e, !.armed = TRUE, !.lost = None,
                           !.state = "linked"]
    ELSE b

\* tick: the link that was silent too long is given up, with no beat.
GivesUp(b) == b.up /\ b.armed /\ b.state = "linked" /\ b.heard >= LostAfter
HelloDue(b) == b.up /\ ~b.armed /\ b.hello = 0

Tick(b, beats) ==
    LET c == IF GivesUp(b)
             THEN [b EXCEPT !.up = FALSE, !.armed = FALSE, !.hello = None,
                            !.lost = b.heard, !.state = "looking"]
             ELSE [b EXCEPT !.seq = IF beats THEN (@ + 1) % SeqWrap ELSE @,
                            !.hello = IF HelloDue(b) THEN HelloEvery ELSE @]
    IN  [c EXCEPT !.state = IF @ = "looking" /\ c.lost # None /\ c.lost >= Grace THEN "solo" ELSE @]
=============================================================================
