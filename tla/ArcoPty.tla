------------------------------- MODULE ArcoPty -------------------------------
(***************************************************************************)
(* Control and the Arco it spawned on a pseudo-terminal, from pty_popen to *)
(* the end of its shutdown (control/arco_process.py, control/process.py).  *)
(*                                                                         *)
(* Arco redraws its console all the time, and a terminal that nobody reads *)
(* blocks it.  A thread of Control (_drain_loop) reads it and records what *)
(* it reads, while the booting thread waits for Arco to come up, serves,   *)
(* stops it and, when the drain thread has ended, reads what is left.      *)
(*                                                                         *)
(* What Arco writes are chunks, numbered in their order.  Exec's failure   *)
(* is noted in the same place, as the first of them.  A pty keeps what was *)
(* written until it is read, also when Arco is gone, as on Linux.          *)
(***************************************************************************)
EXTENDS Integers, Sequences

CONSTANTS
    Capacity,    \* chunks that the terminal holds
    Startup,     \* chunks Arco writes before it can be found
    MaxSaid,     \* bound: chunks written
    ReadyWait,   \* ready_timeout
    ResetWait,   \* how long pyarco waits for the reply to a reset
    StopWait,    \* stop_process's timeout and kill_timeout
    JoinWait,    \* close() waits so long for the drain thread
    DiskFails    \* a write to the log may raise

ASSUME ArcoPtyAssumption ==
    /\ Capacity \in Nat \ {0} /\ Startup \in 0 .. MaxSaid /\ MaxSaid \in Nat \ {0}
    /\ ReadyWait \in Nat /\ ResetWait \in Nat /\ StopWait \in Nat /\ JoinWait \in Nat
    /\ DiskFails \in BOOLEAN

VARIABLES
    arco,       \* the child: "none", "up", "gone" (a zombie), "reaped"
    said,       \* how many chunks it has written
    pty,        \* those nobody has read
    reader,     \* the drain thread: "none", "waits", "records", "done"
    taken,       \* what it has read and not recorded
    quit,       \* _stop
    tape,       \* the log
    recording,  \* _log is open
    torn,       \* a write to it has raised
    master,     \* the descriptor: "none", "open", "closed", "leaked"
    boot,       \* where the booting thread is
    budget,     \* what is left of ready_timeout
    span,       \* what is left of the present wait
    synced,     \* o2lite.time_get() > 0
    zero,       \* arco.zero is set
    asked,      \* resets on their way to Arco
    replies,    \* their replies on the way back
    wiped       \* Arco has reset

console == <<said, pty>>
drain == <<reader, taken>>
log == <<tape, torn>>
pyarco == <<synced, zero, asked, replies, wiped>>
ptyVars == <<arco, console, drain, quit, log, recording, master, boot, budget, span, pyarco>>

PtyInit ==
    /\ arco = "none" /\ said = 0 /\ pty = <<>>
    /\ reader = "none" /\ taken = <<>> /\ quit = FALSE
    /\ tape = <<>> /\ recording = FALSE /\ torn = FALSE /\ master = "none"
    /\ boot = "start" /\ budget = 0 /\ span = 0
    /\ synced = FALSE /\ zero = FALSE /\ asked = 0 /\ replies = 0 /\ wiped = FALSE

Stays == arco \notin {"gone", "reaped"}
Full == Len(pty) >= Capacity

-----------------------------------------------------------------------------
(* Arco                                                                    *)

ArcoWrites ==
    /\ arco = "up" /\ ~Full /\ said < MaxSaid
    /\ said' = said + 1 /\ pty' = Append(pty, said')
    /\ UNCHANGED <<arco, drain, quit, log, recording, master, boot, budget, span, pyarco>>

\* It exits: by itself, or for a signal it was sent.
ArcoExits ==
    /\ arco = "up" /\ arco' = "gone"
    /\ UNCHANGED <<console, drain, quit, log, recording, master, boot, budget, span, pyarco>>

\* It resets and replies, if it can draw.
ArcoResets ==
    /\ arco = "up" /\ ~Full /\ asked > 0
    /\ asked' = asked - 1 /\ replies' = replies + 1 /\ wiped' = TRUE
    /\ UNCHANGED <<arco, console, drain, quit, log, recording, master, boot, budget,
                   span, synced, zero>>

-----------------------------------------------------------------------------
(* The drain thread                                                        *)

\* _drain_loop: select says there is something, and as much as a read gives is
\* taken.
ReaderReads ==
    /\ reader = "waits" /\ ~quit /\ pty # <<>>
    /\ \E n \in 1 .. Len(pty) : taken' = SubSeq(pty, 1, n) /\ pty' = SubSeq(pty, n + 1, Len(pty))
    /\ reader' = "records"
    /\ UNCHANGED <<arco, said, quit, log, recording, master, boot, budget, span, pyarco>>

\* Faulty variant: it is over when select has nothing.
ReaderIdle == quit \/ pty = <<>>

\* It is over when it was told so, or the other end is closed and all was read.
ReaderOver == quit \/ (~Stays /\ pty = <<>>)

ReaderEnds ==
    /\ reader = "waits" /\ ReaderOver /\ reader' = "done"
    /\ UNCHANGED <<arco, console, taken, quit, log, recording, master, boot, budget, span, pyarco>>

\* _record: into the log, unless it was closed meanwhile.
Record(chunks) == tape' = IF recording THEN tape \o chunks ELSE tape

ReaderRecords ==
    /\ reader = "records" /\ Record(taken)
    /\ taken' = <<>> /\ reader' = "waits"
    /\ UNCHANGED <<arco, console, quit, torn, recording, master, boot, budget, span, pyarco>>

\* The write raises, and that ends the thread: only the read is within a `try`.
ReaderTears ==
    /\ DiskFails /\ reader = "records" /\ recording
    /\ torn' = TRUE /\ taken' = <<>> /\ reader' = "done"
    /\ UNCHANGED <<arco, console, quit, tape, recording, master, boot, budget, span, pyarco>>

-----------------------------------------------------------------------------
(* The booting thread: pty_popen and wait_ready                            *)

Spawned == master' = "open" /\ recording' = TRUE /\ reader' = "waits"

\* pty_popen, and ArcoProcess.start returns.
Start ==
    /\ boot = "start" /\ Spawned
    /\ arco' = "up" /\ boot' = "look" /\ budget' = ReadyWait
    /\ UNCHANGED <<console, taken, quit, log, span, pyarco>>

\* The child could not exec: noted, reaped, closed and raised.
ExecFails ==
    /\ boot = "start" /\ Spawned
    /\ arco' = "gone" /\ boot' = "reap" /\ span' = StopWait
    /\ said' = 1 /\ tape' = <<1>>
    /\ UNCHANGED <<pty, taken, quit, torn, budget, pyarco>>

\* Faulty variant: pyarco's initialize() returns, so Arco is ready.
ProbeByReturn ==
    IF synced THEN boot' = "ready" /\ UNCHANGED <<zero, asked, span>>
    ELSE boot' = "connect" /\ span' = budget /\ UNCHANGED <<zero, asked>>

\* _probe_engine: a reset that an earlier probe gave up on is asked for again.
\* With it done, initialize() returns at once; without a connection it waits for
\* one as long as there is time.
Probe ==
    \/ /\ synced /\ ~zero
       /\ boot' = "recover" /\ span' = budget /\ asked' = asked + 1
       /\ UNCHANGED zero
    \/ synced /\ zero /\ boot' = "ready" /\ UNCHANGED <<zero, asked, span>>
    \/ ~synced /\ boot' = "connect" /\ span' = budget /\ UNCHANGED <<zero, asked>>

\* A lap of wait_ready: an Arco that has exited fails it, and so does the deadline.
Look ==
    /\ boot = "look"
    /\ \/ /\ ~Stays \/ budget <= 0
          /\ arco' = (IF Stays THEN arco ELSE "reaped")
          /\ boot' = "failed"
          /\ UNCHANGED <<zero, asked, span>>
       \/ Stays /\ budget > 0 /\ Probe /\ UNCHANGED arco
    /\ UNCHANGED <<console, drain, quit, log, recording, master, budget, synced, replies, wiped>>

\* initialize() has found Arco, and asks it to reset.
Connects ==
    /\ boot = "connect" /\ arco = "up" /\ said >= Startup /\ ~Full
    /\ synced' = TRUE /\ asked' = asked + 1
    /\ boot' = "reset" /\ span' = ResetWait
    /\ UNCHANGED <<arco, console, drain, quit, log, recording, master, budget, zero, replies, wiped>>

\* A reply comes while pyarco or _recover_reset polls.  It may be the reply to an
\* earlier reset than the one that is waited for.
Zero ==
    /\ boot \in {"reset", "recover"} /\ replies > 0
    /\ replies' = replies - 1 /\ zero' = TRUE /\ boot' = "ready"
    /\ UNCHANGED <<arco, console, drain, quit, log, recording, master, budget, span,
                   synced, asked, wiped>>

ProbeFails ==
    /\ boot \in {"connect", "reset", "recover"} /\ span = 0
    /\ boot' = "look"
    /\ UNCHANGED <<arco, console, drain, quit, log, recording, master, budget, span, pyarco>>

-----------------------------------------------------------------------------
(* stop_process, and _PtyProcess.close                                     *)

\* poll() reaps.
Reaped == arco' = "reaped" /\ boot' = "close" /\ UNCHANGED span

\* ArcoProcess.shutdown, after a failure or a round: a corpse is not signalled.
Shutdown ==
    /\ boot \in {"ready", "failed"}
    /\ \/ ~Stays /\ Reaped
       \/ Stays /\ boot' = "term" /\ span' = StopWait /\ UNCHANGED arco
    /\ UNCHANGED <<console, drain, quit, log, recording, master, budget, pyarco>>

\* _wait_bounded; the wait for a child that could not exec is the same.
StopLap ==
    /\ boot \in {"term", "kill", "reap"}
    /\ \/ ~Stays /\ Reaped
       \/ /\ Stays /\ span = 0 /\ UNCHANGED arco
          /\ IF boot = "term" THEN boot' = "kill" /\ span' = StopWait
             ELSE boot' = "close" /\ UNCHANGED span
    /\ UNCHANGED <<console, drain, quit, log, recording, master, budget, pyarco>>

ClosePty ==
    /\ boot = "close" /\ quit' = TRUE
    /\ boot' = "join" /\ span' = JoinWait
    /\ UNCHANGED <<arco, console, drain, log, recording, master, budget, pyarco>>

\* Faulty variant: whatever the thread does by then.
JoinOver == reader = "done" \/ span = 0

\* The thread has ended, and the terminal is this thread's.
ReaderJoined == reader = "done"

\* One last read of what is left.
Sweep ==
    /\ boot = "join" /\ ReaderJoined
    /\ pty' = <<>> /\ Record(pty) /\ master' = "closed" /\ boot' = "shut"
    /\ UNCHANGED <<arco, said, drain, quit, torn, recording, budget, span, pyarco>>

\* The write of it raises, out of close().
SweepTears ==
    /\ DiskFails /\ boot = "join" /\ ReaderJoined /\ pty # <<>>
    /\ pty' = <<>> /\ torn' = TRUE /\ boot' = "closed"
    /\ UNCHANGED <<arco, said, drain, quit, tape, recording, master, budget, span, pyarco>>

\* A descriptor that the thread may still read is not closed.
Leak ==
    /\ boot = "join" /\ ~ReaderJoined /\ span = 0
    /\ master' = "leaked" /\ boot' = "shut"
    /\ UNCHANGED <<arco, console, drain, quit, log, recording, budget, span, pyarco>>

CloseLog ==
    /\ boot = "shut" /\ recording' = FALSE /\ boot' = "closed"
    /\ UNCHANGED <<arco, console, drain, quit, log, master, budget, span, pyarco>>

-----------------------------------------------------------------------------
\* Time passes in a wait; ready_timeout runs out in a probe, and may run out in
\* the sleep between two.
InWait == boot \in {"connect", "reset", "recover", "term", "kill", "reap", "join"} /\ span > 0

PtyTick ==
    /\ InWait \/ (boot = "look" /\ budget > 0)
    /\ span' = (IF InWait THEN span - 1 ELSE span)
    /\ budget' = (IF boot \in {"look", "connect", "reset", "recover"} THEN budget - 1 ELSE budget)
    /\ UNCHANGED <<arco, console, drain, quit, log, recording, master, boot, pyarco>>

Booting == Start \/ ExecFails \/ Look \/ Connects \/ Zero \/ ProbeFails
Stopping == Shutdown \/ StopLap \/ ClosePty \/ Sweep \/ SweepTears \/ Leak \/ CloseLog
Draining == ReaderReads \/ ReaderEnds \/ ReaderRecords \/ ReaderTears
PtyNext == ArcoWrites \/ ArcoExits \/ ArcoResets \/ Booting \/ Stopping \/ Draining \/ PtyTick
PtySpec == PtyInit /\ [][PtyNext]_ptyVars

-----------------------------------------------------------------------------
(* Properties                                                              *)

\* The variables have their types.
PtyTypeOK ==
    /\ arco \in {"none", "up", "gone", "reaped"} /\ said \in 0 .. MaxSaid
    /\ pty \in Seq(1 .. MaxSaid) /\ taken \in Seq(1 .. MaxSaid) /\ tape \in Seq(1 .. MaxSaid)
    /\ reader \in {"none", "waits", "records", "done"}
    /\ master \in {"none", "open", "closed", "leaked"}
    /\ boot \in {"start", "look", "connect", "reset", "recover", "reap", "ready", "failed",
                 "term", "kill", "close", "join", "shut", "closed"}
    /\ budget \in -ResetWait .. ReadyWait /\ span \in Nat /\ asked \in Nat /\ replies \in Nat
    /\ {quit, recording, torn, synced, zero, wiped} \subseteq BOOLEAN

\* Arco, while it is not being closed, is never stuck on a terminal that nobody
\* will read: "draining ... is what keeps the process alive".  The exception is a
\* log that could not be written, which takes the thread with it.
NeverStuck ==
    arco = "up" /\ Full /\ boot \notin {"close", "join", "shut", "closed"}
        => reader # "done" \/ torn

\* The log is what Arco said, once and in order, whichever thread read it; of an
\* Arco that has been reaped and closed it is all of it, up to the last word
\* before the exit, and the descriptor was closed under nobody.
HeardInFull ==
    /\ NeverStuck
    /\ torn \/ tape = [i \in 1 .. Len(tape) |-> i]
    /\ boot = "closed" /\ master = "closed" /\ arco = "reaped" /\ ~torn => Len(tape) = said
    /\ master = "closed" => reader = "done"

\* wait_ready reports an Arco as ready only after that Arco did a reset, however
\* the probes failed before ("No false ready"), and with a reply in hand; and it
\* overruns its timeout by no more than pyarco's own wait for a reset.
ReadyIsTrue ==
    /\ boot = "ready" => wiped /\ zero
    /\ budget >= -ResetWait

=============================================================================
