------------------------------ MODULE Threads ------------------------------
(***************************************************************************)
(* What Control keeps a second thread for, in an installation each: one    *)
(* whose fixture hangs on an Art-Net controller, one whose panels are      *)
(* watched, and one whose Arco runs on a pseudo-terminal.  The threads     *)
(* share the tick thread and nothing else.                                 *)
(***************************************************************************)
EXTENDS ArtNetSink, Panel, ArcoPty

VARIABLE
    installed  \* "wires", "panels" or "console"

threadVars == <<vars, panelVars, ptyVars, installed>>

Wired == installed = "wires"
Watched == installed = "panels"

ThreadsInit ==
    /\ Init /\ PtyInit
    /\ \/ installed \in {"wires", "console"} /\ PanelInit(Nothing)
       \/ installed = "panels" /\ \E start \in Room \cup {Nothing} : PanelInit(start)

WiresStep == Wired /\ Next /\ UNCHANGED <<panelVars, ptyVars>>
PanelsStep == Watched /\ PanelNext /\ UNCHANGED <<vars, ptyVars>>
ConsoleStep == installed = "console" /\ PtyNext /\ UNCHANGED <<vars, panelVars>>

ThreadsNext == (WiresStep \/ PanelsStep \/ ConsoleStep) /\ UNCHANGED installed

\* The sink's threads run, and the tick thread polls.
ThreadsSpec ==
    /\ ThreadsInit /\ [][ThreadsNext]_threadVars
    /\ WF_threadVars(Wired /\ Engine /\ UNCHANGED <<panelVars, ptyVars, installed>>)
    /\ WF_threadVars(Wired /\ Sender /\ UNCHANGED <<panelVars, ptyVars, installed>>)
    /\ WF_threadVars(Wired /\ Tick /\ UNCHANGED <<panelVars, ptyVars, installed>>)
    /\ WF_threadVars(Watched /\ Poll /\ UNCHANGED <<vars, ptyVars, installed>>)

=============================================================================
