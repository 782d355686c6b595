---------------------------- MODULE SignalCount ----------------------------
(***************************************************************************)
(* handle_signals.c: a process that counts SIGINT, SIGQUIT and SIGTSTP,    *)
(* stops itself at the first two SIGTSTP and exits at the third.           *)
(*                                                                         *)
(* act is a global, so sa_mask is empty and sa_flags has no SA_NODEFER:    *)
(* while the handler runs for one signal the same signal waits, and the    *)
(* two others interrupt it.  A signal that is sent while it is pending is  *)
(* merged with the first, and SIGCONT discards a pending SIGTSTP.  What    *)
(* the handlers print between two counts is left out.                      *)
(***************************************************************************)
EXTENDS Integers, Sequences

CONSTANTS MaxSent    \* bound of the model: how often each signal is sent

Signals == {"INT", "QUIT", "TSTP"}
MaxSentAssumption == MaxSent \in [Signals -> Nat]

VARIABLES state,     \* the process: "running", "stopped" or "exited"
          count,     \* sig_int, sig_quit, sig_stp
          handlers,  \* the calls of sighandler, the innermost first
          pending,   \* signals sent and not delivered
          sent       \* how often each signal was sent

vars == <<state, count, handlers, pending, sent>>

\* A call is at "count" (++), at "check" (sig_stp == 3), at "exit" or "return".
Call(s, at) == [signal |-> s, at |-> at]

Init ==
    /\ state = "running"
    /\ count = [s \in Signals |-> 0]
    /\ handlers = <<>>
    /\ pending = {}
    /\ sent = [s \in Signals |-> 0]

-----------------------------------------------------------------------------
(* The terminal and the kernel.                                            *)

Send(s) ==
    /\ state # "exited" /\ sent[s] < MaxSent[s]
    /\ sent' = [sent EXCEPT ![s] = @ + 1]
    /\ pending' = pending \cup {s}
    /\ UNCHANGED <<state, count, handlers>>

Continue ==
    /\ state = "stopped" /\ state' = "running"
    /\ pending' = pending \ {"TSTP"}
    /\ UNCHANGED <<count, handlers, sent>>

Handling(s) == \E i \in 1..Len(handlers) : handlers[i].signal = s

\* (fault) SA_NODEFER: a handler is interrupted by its own signal
DeliverNested(s) ==
    /\ state = "running" /\ s \in pending
    /\ handlers' = <<Call(s, "count")>> \o handlers
    /\ pending' = pending \ {s}
    /\ UNCHANGED <<state, count, sent>>

Deliver(s) ==
    /\ state = "running" /\ s \in pending /\ ~Handling(s)
    /\ handlers' = <<Call(s, "count")>> \o handlers
    /\ pending' = pending \ {s}
    /\ UNCHANGED <<state, count, sent>>

-----------------------------------------------------------------------------
(* sighandler, handle_interrupt, handle_quit, handle_stop, check_sig_stp.  *)

At(s, label) ==
    state = "running" /\ handlers # <<>> /\ Head(handlers) = Call(s, label)

Goto(label) == handlers' = [handlers EXCEPT ![1].at = label]

Count(s) ==
    /\ At(s, "count")
    /\ count' = [count EXCEPT ![s] = @ + 1]
    /\ Goto(IF s = "TSTP" THEN "check" ELSE "return")
    /\ UNCHANGED <<state, pending, sent>>

\* raise(SIGSTOP) stops the process where it is.
Check ==
    /\ At("TSTP", "check")
    /\ IF count["TSTP"] = 3 THEN Goto("exit") /\ UNCHANGED state
                            ELSE Goto("return") /\ state' = "stopped"
    /\ UNCHANGED <<count, pending, sent>>

Exit ==
    /\ At("TSTP", "exit")
    /\ state' = "exited"
    /\ UNCHANGED <<count, handlers, pending, sent>>

Return(s) ==
    /\ At(s, "return")
    /\ handlers' = Tail(handlers)
    /\ UNCHANGED <<state, count, pending, sent>>

-----------------------------------------------------------------------------
Program == \/ \E s \in Signals : Deliver(s) \/ Count(s) \/ Return(s)
           \/ Check \/ Exit

Next == Program \/ Continue \/ \E s \in Signals : Send(s)

Spec == Init /\ [][Next]_vars

-----------------------------------------------------------------------------
TypeOK ==
    /\ state \in {"running", "stopped", "exited"}
    /\ count \in [Signals -> Nat]
    /\ handlers \in Seq([signal : Signals, at : {"count", "check", "exit", "return"}])
    /\ Len(handlers) <= 3
    /\ pending \subseteq Signals
    /\ \A s \in Signals : sent[s] \in 0..MaxSent[s]

\* The test is for exactly three, and a handler can be interrupted between
\* ++sig_stp and the test; still no SIGTSTP is counted behind the third, and
\* from the third on the process is on its way out (lines 25-32 and 53-56).
ThirdIsLast ==
    /\ count["TSTP"] <= 3
    /\ count["TSTP"] = 3 => Handling("TSTP") \/ state = "exited"
=============================================================================
