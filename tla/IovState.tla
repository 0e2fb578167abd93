------------------------------ MODULE IovState ------------------------------
(***************************************************************************)
(* The PF's tracking of VF function level resets (FLR) and pauses,         *)
(* gt/iov/intel_iov_state.c, with the callers of it in i915_sriov.c that   *)
(* change state: the `control' attribute, the disabling of VFs, and system *)
(* suspend and resume.                                                     *)
(*                                                                         *)
(* Each gt (tile) keeps, for each VF, a word of state bits and the boolean *)
(* `paused'.  Three kinds of actors change them without a common lock: the *)
(* handler of GuC notifications, the gt's state worker (a work item that   *)
(* scans all VFs), and the threads that pause, resume and suspend.  A VF   *)
(* control command is a blocking round trip to the GuC of one gt.  The GuC *)
(* and the PCI function are external: modelled from the "VF FLR Flow"      *)
(* comment and from how this code uses them.                               *)
(***************************************************************************)
EXTENDS Integers, Sequences, FiniteSets

CONSTANTS
    NGT,       \* number of gts; gt 0 is the root one
    NVF,       \* number of VFs, numbered from 1
    Guests,    \* VFs given to a guest: needs_save_restore()
    NHosts,    \* number of user threads that use the control attribute
    MaxFlr,    \* bound on PCI FLRs
    MaxActs    \* bound on user operations, suspends and failed commands, together

ASSUME StateAssumption ==
    /\ NGT \in Nat \ {0}
    /\ NVF \in Nat \ {0}
    /\ Guests \subseteq 1..NVF
    /\ NHosts \in Nat
    /\ {MaxFlr, MaxActs} \subseteq Nat

Gts == 0..(NGT - 1)
VfIds == 1..NVF
Root == 0

(* The thread that runs the power management callbacks, and user threads.  *)
Pm == NGT
Hosts == (NGT + 1)..(NGT + NHosts)
Threads == Hosts \cup {Pm}
Callers == Gts \cup Threads

Bits == {"FLR_IN_PROGRESS", "NEEDS_FLR_START", "FLR_DONE_RECEIVED",
         "NEEDS_FLR_FINISH", "PAUSE_IN_PROGRESS", "PAUSE_BY_SUSPEND",
         "FLR_FAILED"}
Commands == {"START", "FINISH", "PAUSE", "RESUME", "STOP"}
Events == {"FLR", "FLR_DONE", "PAUSE_DONE"}

(* What the GuC of a gt is doing with a VF. *)
GucStates == {"run", "pausing", "paused", "stopped", "notified", "flr", "done"}

VARIABLES
    bits,     \* bits[g][v]: iov->pf.state.data[v].state
    paused,   \* paused[g][v]: iov->pf.state.data[v].paused
    worker,   \* the state worker of each gt
    call,     \* the VF control command each caller is waiting for
    thread,   \* the user threads and the power management thread
    guc,      \* guc[g][v]: the GuC's state of the VF
    events,   \* notifications not handled yet, per gt, in order
    left,     \* what is left of the bounds
    wiped,    \* gts whose bits were cleared under an FLR in flight
    inferred  \* <<g, v>> paused for the current suspend

state_vars == <<bits, paused, worker, call, thread, guc, events, left, wiped,
          inferred>>

NoCall == [cmd |-> "none", gt |-> Root, vf |-> 1, res |-> "none"]
Idle == [op |-> "none", pc |-> "idle", gt |-> Root, vf |-> 1]

(* The state has its type; in particular the worker never walks past the   *)
(* last VF (pf_process_all_vfs).                                           *)
StateTypeOK ==
    /\ bits \in [Gts -> [VfIds -> SUBSET Bits]]
    /\ paused \in [Gts -> [VfIds -> BOOLEAN]]
    /\ worker \in [Gts -> [queued : BOOLEAN, more : BOOLEAN, vf : 0..NVF]]
    /\ call \in [Callers -> [cmd : Commands \cup {"none"}, gt : Gts, vf : VfIds,
                             res : {"none", "sent", "ok", "busy", "error"}]]
    /\ thread \in [Threads ->
                     [op : {"none", "pause", "resume", "stop", "suspend", "restore"},
                      pc : {"idle", "sync", "check", "set", "call", "wait", "asleep"},
                      gt : Gts, vf : VfIds]]
    /\ guc \in [Gts -> [VfIds -> GucStates]]
    /\ events \in [Gts -> Seq([ev : Events, vf : VfIds])]
    /\ left \in [flr : 0..MaxFlr, acts : 0..MaxActs]
    /\ wiped \subseteq Gts
    /\ inferred \subseteq Gts \X VfIds

StateInit ==
    /\ bits = [g \in Gts |-> [v \in VfIds |-> {}]]
    /\ paused = [g \in Gts |-> [v \in VfIds |-> FALSE]]
    /\ worker = [g \in Gts |-> [queued |-> FALSE, more |-> FALSE, vf |-> 0]]
    /\ call = [c \in Callers |-> NoCall]
    /\ thread = [t \in Threads |-> Idle]
    /\ guc = [g \in Gts |-> [v \in VfIds |-> "run"]]
    /\ events = [g \in Gts |-> <<>>]
    /\ left = [flr |-> MaxFlr, acts |-> MaxActs]
    /\ wiped = {}
    /\ inferred = {}

-----------------------------------------------------------------------------
(* Helpers. *)

Has(g, v, b) == b \in bits[g][v]
NoFlr(g, v) == ~Has(g, v, "FLR_IN_PROGRESS")
NoPause(g, v) == ~Has(g, v, "PAUSE_IN_PROGRESS") /\ ~paused[g][v]

Put(g, v, add, del) == bits' = [bits EXCEPT ![g][v] = (@ \ del) \cup add]

SendCmd(c, cmd, g, v) ==
    call' = [call EXCEPT ![c] = [cmd |-> cmd, gt |-> g, vf |-> v, res |-> "sent"]]

Answered(c, cmds) == call[c].cmd \in cmds /\ call[c].res # "sent"

\* Mutant: the bit is set without testing it.
InitVfFlrAgain(V) ==
    /\ bits' = [g \in Gts |-> [v \in VfIds |->
                  IF v \in V THEN bits[g][v] \cup {"FLR_IN_PROGRESS", "NEEDS_FLR_START"}
                             ELSE bits[g][v]]]
    /\ worker' = [g \in Gts |-> [worker[g] EXCEPT !.queued = TRUE]]

(* pf_init_vf_flr() of the VFs V on all gts, unless one is in progress.    *)
InitVfFlr(V) ==
    /\ bits' = [g \in Gts |-> [v \in VfIds |->
                  IF v \in V /\ NoFlr(g, v)
                  THEN bits[g][v] \cup {"FLR_IN_PROGRESS", "NEEDS_FLR_START"}
                  ELSE bits[g][v]]]
    /\ worker' = [g \in Gts |->
                    [worker[g] EXCEPT !.queued = @ \/ \E v \in V : NoFlr(g, v)]]

-----------------------------------------------------------------------------
(* The state worker. *)

WorkerStart(g) ==
    /\ worker[g].queued
    /\ worker[g].vf = 0
    /\ worker' = [worker EXCEPT ![g] = [queued |-> FALSE, more |-> FALSE, vf |-> 1]]
    /\ UNCHANGED <<bits, paused, call, thread, guc, events, left, wiped,
                   inferred>>

\* Mutant: the worker is not queued again.
ProcessedFirst(g, m) ==
    LET w == worker[g]
    IN  worker' = [worker EXCEPT ![g] =
            IF w.vf < NVF THEN [w EXCEPT !.vf = @ + 1] ELSE [w EXCEPT !.vf = 0]]

(* pf_process_vf() of the current VF has returned m; after the last VF     *)
(* pf_process_all_vfs() queues the worker again if any VF asked for more.  *)
Processed(g, m) ==
    LET w == worker[g]
        more == w.more \/ m
    IN  worker' = [worker EXCEPT ![g] =
            IF w.vf < NVF
            THEN [w EXCEPT !.vf = @ + 1, !.more = more]
            ELSE [w EXCEPT !.vf = 0, !.more = FALSE, !.queued = @ \/ more]]

(* pf_process_vf() up to the command: the first bit found set decides; a   *)
(* bit set after its test is found by the pass its setter queues.  Before  *)
(* FINISH the PF clears the GGTT entries and the LMEM of the VF.           *)
ProcessVf(g) ==
    LET v == worker[g].vf
    IN  /\ v # 0
        /\ call[g] = NoCall
        /\ CASE Has(g, v, "NEEDS_FLR_START") ->
                    /\ Put(g, v, {}, {"NEEDS_FLR_START"})
                    /\ SendCmd(g, "START", g, v)
                    /\ UNCHANGED worker
             [] Has(g, v, "FLR_DONE_RECEIVED") /\ ~Has(g, v, "NEEDS_FLR_START") ->
                    /\ Put(g, v, {"NEEDS_FLR_FINISH"}, {"FLR_DONE_RECEIVED"})
                    /\ Processed(g, TRUE)
                    /\ UNCHANGED call
             [] Has(g, v, "NEEDS_FLR_FINISH")
                    /\ bits[g][v] \cap {"NEEDS_FLR_START", "FLR_DONE_RECEIVED"} = {} ->
                    /\ Put(g, v, {}, {"NEEDS_FLR_FINISH"})
                    /\ SendCmd(g, "FINISH", g, v)
                    /\ UNCHANGED worker
             [] OTHER ->
                    /\ Processed(g, FALSE)
                    /\ UNCHANGED <<bits, call>>
        /\ UNCHANGED <<paused, thread, guc, events, left, wiped, inferred>>

\* Mutant: a failed command leaves the FLR in progress.
WorkerAnsweredStuck(g) ==
    LET c == call[g]
        needs == IF c.cmd = "START" THEN "NEEDS_FLR_START" ELSE "NEEDS_FLR_FINISH"
    IN  /\ Answered(g, {"START", "FINISH"})
        /\ CASE c.res = "busy"  -> Put(g, c.vf, {needs}, {})
             [] c.res = "error" -> Put(g, c.vf, {"FLR_FAILED"}, {})
             [] c.res = "ok"    -> Put(g, c.vf, {}, {IF c.cmd = "START"
                                                     THEN "PAUSE_IN_PROGRESS"
                                                     ELSE "FLR_IN_PROGRESS"})
        /\ Processed(g, c.res = "busy" \/ (c.res = "ok" /\ c.cmd = "START"))
        /\ call' = [call EXCEPT ![g] = NoCall]
        /\ UNCHANGED <<paused, thread, guc, events, left, wiped, inferred>>

(* The command of the worker has been answered: the rest of pf_process_vf. *)
WorkerAnswered(g) ==
    LET c == call[g]
        needs == IF c.cmd = "START" THEN "NEEDS_FLR_START" ELSE "NEEDS_FLR_FINISH"
    IN  /\ Answered(g, {"START", "FINISH"})
        /\ CASE c.res = "busy"  -> Put(g, c.vf, {needs}, {})
             [] c.res = "error" -> Put(g, c.vf, {"FLR_FAILED"}, {"FLR_IN_PROGRESS"})
             [] c.res = "ok"    -> Put(g, c.vf, {}, {IF c.cmd = "START"
                                                     THEN "PAUSE_IN_PROGRESS"
                                                     ELSE "FLR_IN_PROGRESS"})
        /\ Processed(g, c.res = "busy" \/ (c.res = "ok" /\ c.cmd = "START"))
        /\ call' = [call EXCEPT ![g] = NoCall]
        /\ UNCHANGED <<paused, thread, guc, events, left, wiped, inferred>>

-----------------------------------------------------------------------------
(* pf_handle_vf_event(): notifications of one GuC are handled in order.    *)
HandleEvent(g) ==
    /\ events[g] # <<>>
    /\ LET e == Head(events[g])
       IN  CASE e.ev = "FLR" ->
                    /\ paused' = [paused EXCEPT ![g][e.vf] = FALSE]
                    /\ InitVfFlr({e.vf})
             [] e.ev = "FLR_DONE" ->
                    /\ Put(g, e.vf, {"FLR_DONE_RECEIVED"}, {})
                    /\ worker' = [worker EXCEPT ![g].queued = TRUE]
                    /\ UNCHANGED paused
             [] e.ev = "PAUSE_DONE" ->
                    /\ paused' = [paused EXCEPT ![g][e.vf] = TRUE]
                    /\ Put(g, e.vf, {}, {"PAUSE_IN_PROGRESS"})
                    /\ UNCHANGED worker
    /\ events' = [events EXCEPT ![g] = Tail(@)]
    /\ UNCHANGED <<call, thread, guc, left, wiped, inferred>>

-----------------------------------------------------------------------------
(* The control attribute of a VF: pause, resume and stop go to one gt      *)
(* after the other, whatever each of them returns.                         *)
Control(h, op, v) ==
    /\ left.acts > 0
    /\ thread[h] = Idle
    /\ thread[Pm] = Idle
    /\ left' = [left EXCEPT !.acts = @ - 1]
    /\ thread' = [thread EXCEPT ![h] =
                    [op |-> op, vf |-> v, gt |-> Root,
                     pc |-> IF op = "pause" THEN "check" ELSE "set"]]
    /\ UNCHANGED <<bits, paused, worker, call, guc, events, wiped, inferred>>

(* i915_sriov_pf_disable_vfs() starts the FLRs itself and then only waits. *)
DisableVfs(h) ==
    /\ left.acts > 0
    /\ thread[h] = Idle
    /\ thread[Pm] = Idle
    /\ left' = [left EXCEPT !.acts = @ - 1]
    /\ InitVfFlr(VfIds)
    /\ UNCHANGED <<paused, call, thread, guc, events, wiped, inferred>>

(* Where thread t goes after one gt: a user thread to the next gt, the     *)
(* suspend and resume loops also from the last gt to the next VF.          *)
NextGt(t) ==
    LET s == thread[t]
        first == [pause |-> "check", resume |-> "set", stop |-> "set",
                  suspend |-> "sync", restore |-> "sync", none |-> "idle"]
    IN  CASE s.gt < NGT - 1 -> [s EXCEPT !.gt = @ + 1, !.pc = first[s.op]]
          [] s.gt = NGT - 1 /\ t = Pm /\ s.vf < NVF ->
                 [s EXCEPT !.vf = @ + 1, !.gt = Root, !.pc = first[s.op]]
          [] OTHER -> IF s.op = "suspend" THEN [Idle EXCEPT !.op = "suspend", !.pc = "asleep"]
                                          ELSE Idle

(* Where an error takes it: the suspend loop gives up on the other VFs,    *)
(* the resume loop goes to the next VF.                                    *)
AfterError(t) ==
    LET s == thread[t]
    IN  CASE s.op = "suspend" -> [Idle EXCEPT !.op = "suspend", !.pc = "asleep"]
          [] s.op = "restore" -> IF s.vf < NVF
                                 THEN [s EXCEPT !.vf = @ + 1, !.gt = Root, !.pc = "sync"]
                                 ELSE Idle
          [] OTHER -> NextGt(t)

(* intel_iov_state_pause_vf() up to its test_and_set_bit(). *)
PauseCheck(t) ==
    LET s == thread[t]
    IN  /\ s.pc = "check"
        /\ thread' = [thread EXCEPT ![t] =
                        IF NoFlr(s.gt, s.vf) /\ NoPause(s.gt, s.vf)
                        THEN [s EXCEPT !.pc = "set"] ELSE AfterError(t)]
        /\ UNCHANGED <<bits, paused, worker, call, guc, events, left, wiped,
                       inferred>>

(* From there to the command, or the command of resume and stop. *)
Command(t) ==
    LET s == thread[t]
        pausing == s.op \in {"pause", "suspend"}
    IN  /\ s.pc = "set"
        /\ IF pausing /\ Has(s.gt, s.vf, "PAUSE_IN_PROGRESS")
           THEN /\ thread' = [thread EXCEPT ![t] = AfterError(t)]
                /\ UNCHANGED <<bits, call>>
           ELSE /\ thread' = [thread EXCEPT ![t].pc = "call"]
                /\ Put(s.gt, s.vf, IF pausing THEN {"PAUSE_IN_PROGRESS"} ELSE {}, {})
                /\ SendCmd(t, CASE pausing -> "PAUSE"
                             [] s.op = "stop" -> "STOP"
                             [] OTHER -> "RESUME", s.gt, s.vf)
        /\ UNCHANGED <<paused, worker, guc, events, left, wiped, inferred>>

(* The command has been answered.  A failed pause takes its bit back; a    *)
(* pause for suspend sets PAUSE_BY_SUSPEND and goes on to wait.            *)
ThreadAnswered(t) ==
    LET s == thread[t]
        c == call[t]
        ok == c.res = "ok"
    IN  /\ Answered(t, {"PAUSE", "RESUME", "STOP"})
        /\ CASE c.cmd = "PAUSE" /\ ~ok -> Put(s.gt, s.vf, {}, {"PAUSE_IN_PROGRESS"})
             [] ok /\ s.op = "suspend" -> Put(s.gt, s.vf, {"PAUSE_BY_SUSPEND"}, {})
             [] OTHER -> UNCHANGED bits
        /\ paused' = IF c.cmd = "RESUME" /\ ok
                     THEN [paused EXCEPT ![s.gt][s.vf] = FALSE] ELSE paused
        /\ thread' = [thread EXCEPT ![t] =
                        CASE ~ok -> AfterError(t)
                          [] ok /\ s.op = "suspend" -> [s EXCEPT !.pc = "wait"]
                          [] OTHER -> NextGt(t)]
        /\ call' = [call EXCEPT ![t] = NoCall]
        /\ UNCHANGED <<worker, guc, events, left, wiped, inferred>>

-----------------------------------------------------------------------------
(* System suspend and resume. *)

(* i915_sriov_suspend_prepare(): user threads are frozen by now. *)
SuspendPrepare ==
    /\ left.acts > 0
    /\ \A t \in Threads : thread[t] = Idle
    /\ left' = [left EXCEPT !.acts = @ - 1]
    /\ thread' = [thread EXCEPT ![Pm] = [op |-> "suspend", pc |-> "sync",
                                         gt |-> Root, vf |-> 1]]
    /\ inferred' = {}
    /\ UNCHANGED <<bits, paused, worker, call, guc, events, wiped>>

(* intel_iov_state_pause_vf_sync(): pause unless a pause is on already. *)
PauseSync ==
    LET s == thread[Pm]
    IN  /\ s.op = "suspend"
        /\ s.pc = "sync"
        /\ thread' = [thread EXCEPT ![Pm] =
                        IF s.vf \notin Guests THEN NextGt(Pm)
                        ELSE [s EXCEPT !.pc = IF NoPause(s.gt, s.vf) THEN "check"
                                                                     ELSE "wait"]]
        /\ UNCHANGED <<bits, paused, worker, call, guc, events, left, wiped,
                       inferred>>

(* Its wait for the VF to be paused ends, by the pause or by the timeout.  *)
PauseWaited ==
    LET s == thread[Pm]
        ok == paused[s.gt][s.vf]
    IN  /\ s.pc = "wait"
        /\ thread' = [thread EXCEPT ![Pm] = IF ok THEN NextGt(Pm) ELSE AfterError(Pm)]
        /\ inferred' = IF ok /\ Has(s.gt, s.vf, "PAUSE_BY_SUSPEND")
                       THEN inferred \cup {<<s.gt, s.vf>>} ELSE inferred
        /\ UNCHANGED <<bits, paused, worker, call, guc, events, left, wiped>>

(* The FLR of some VF is under way on gt g, as the PF or the GuC sees it.  *)
FlrInFlight(g) ==
    \/ events[g] # <<>>
    \/ call[g] # NoCall
    \/ \E v \in VfIds : \/ guc[g][v] \in {"notified", "flr", "done"}
                        \/ bits[g][v] \cap {"FLR_IN_PROGRESS", "NEEDS_FLR_START",
                                            "FLR_DONE_RECEIVED", "NEEDS_FLR_FINISH"} # {}

(* The device sleeps and wakes up.  pf_save_vfs_guc_state() has kept the   *)
(* state of the paused guests, up to the first that is not paused.  On the *)
(* way up each gt is initialised again, intel_iov_state_reset() included,  *)
(* before i915_sriov_resume() restores what was kept.  A command of the    *)
(* worker that was not answered fails; the last notifications may be lost.  *)
Kept(g, v) ==
    /\ v \in Guests
    /\ \A f \in Guests, d \in Gts :
          f < v \/ (f = v /\ d <= g) => guc[d][f] = "paused"

StateReset ==
    /\ bits' = [g \in Gts |-> [v \in VfIds |-> {}]]
    /\ paused' = [g \in Gts |-> [v \in VfIds |-> FALSE]]

SystemResume ==
    /\ thread[Pm].pc = "asleep"
    /\ StateReset
    /\ guc' = [g \in Gts |-> [v \in VfIds |-> IF Kept(g, v) THEN "paused" ELSE "run"]]
    /\ \E n \in [Gts -> 0..3] :
          /\ \A g \in Gts : n[g] <= Len(events[g])
          /\ events' = [g \in Gts |-> SubSeq(events[g], 1, n[g])]
    /\ call' = [c \in Callers |-> IF call[c].res = "sent"
                                  THEN [call[c] EXCEPT !.res = "error"] ELSE call[c]]
    /\ wiped' = wiped \cup {g \in Gts : FlrInFlight(g)}
    /\ thread' = [thread EXCEPT ![Pm] = [op |-> "restore", pc |-> "sync",
                                         gt |-> Root, vf |-> 1]]
    /\ UNCHANGED <<worker, left, inferred>>

(* pf_gt_restore_vf_running(): resume the VFs that the suspend paused.     *)
RestoreRunning ==
    LET s == thread[Pm]
    IN  /\ s.op = "restore"
        /\ s.pc = "sync"
        /\ Put(s.gt, s.vf, {}, {"PAUSE_BY_SUSPEND"})
        /\ thread' = [thread EXCEPT ![Pm] =
                        IF Has(s.gt, s.vf, "PAUSE_BY_SUSPEND")
                        THEN [s EXCEPT !.pc = "set"] ELSE NextGt(Pm)]
        /\ UNCHANGED <<paused, worker, call, guc, events, left, wiped, inferred>>

-----------------------------------------------------------------------------
(* The GuC and the PCI function, external. *)

(* The states in which the GuC carries a command out, and where it leads.  *)
Effect(cmd, s) ==
    CASE cmd = "START" /\ s \notin {"flr", "done"} -> "flr"
      [] cmd = "FINISH" /\ s = "done" -> "run"
      [] cmd = "PAUSE" /\ s = "run" -> "pausing"
      [] cmd = "RESUME" /\ s = "paused" -> "run"
      [] cmd = "STOP" /\ s \in {"run", "pausing", "paused", "stopped"} -> "stopped"
      [] OTHER -> "refused"

GucExecutes(c) ==
    LET r == call[c]
        to == Effect(r.cmd, guc[r.gt][r.vf])
    IN  /\ r.res = "sent"
        /\ guc' = IF to = "refused" THEN guc ELSE [guc EXCEPT ![r.gt][r.vf] = to]
        /\ call' = [call EXCEPT ![c].res = IF to = "refused" THEN "error" ELSE "ok"]
        /\ UNCHANGED <<bits, paused, worker, thread, events, left, wiped,
                       inferred>>

(* It may also put a command off or fail it. *)
GucRefuses(c) ==
    /\ call[c].res = "sent"
    /\ left.acts > 0
    /\ left' = [left EXCEPT !.acts = @ - 1]
    /\ \E res \in {"busy", "error"} : call' = [call EXCEPT ![c].res = res]
    /\ UNCHANGED <<bits, paused, worker, thread, guc, events, wiped, inferred>>

(* It reports the end of its FLR cleanup, and of a pause. *)
GucDone(g, v) ==
    /\ guc[g][v] \in {"flr", "pausing"}
    /\ guc' = [guc EXCEPT ![g][v] = IF @ = "flr" THEN "done" ELSE "paused"]
    /\ events' = [events EXCEPT ![g] = Append(@,
                    [ev |-> IF guc[g][v] = "flr" THEN "FLR_DONE" ELSE "PAUSE_DONE",
                     vf |-> v])]
    /\ UNCHANGED <<bits, paused, worker, call, thread, left, wiped, inferred>>

(* The VF is reset through PCI; the GuC of the root gt notifies the PF.    *)
PciFlr(v) ==
    /\ left.flr > 0
    /\ guc[Root][v] \notin {"notified", "flr", "done"}
    /\ left' = [left EXCEPT !.flr = @ - 1]
    /\ guc' = [guc EXCEPT ![Root][v] = "notified"]
    /\ events' = [events EXCEPT ![Root] = Append(@, [ev |-> "FLR", vf |-> v])]
    /\ UNCHANGED <<bits, paused, worker, call, thread, wiped, inferred>>

-----------------------------------------------------------------------------
Step ==
    \/ \E g \in Gts : \/ WorkerStart(g) \/ ProcessVf(g) \/ WorkerAnswered(g)
                      \/ HandleEvent(g)
    \/ \E t \in Threads : PauseCheck(t) \/ Command(t) \/ ThreadAnswered(t)
    \/ PauseSync \/ PauseWaited \/ SystemResume \/ RestoreRunning
    \/ \E c \in Callers : GucExecutes(c)
    \/ \E g \in Gts, v \in VfIds : GucDone(g, v)

Environment ==
    \/ \E h \in Hosts, v \in VfIds, op \in {"pause", "resume", "stop"} : Control(h, op, v)
    \/ \E h \in Hosts : DisableVfs(h)
    \/ \E c \in Callers : GucRefuses(c)
    \/ \E v \in VfIds : PciFlr(v)
    \/ SuspendPrepare

StateNext == Step \/ Environment

StateSpec == StateInit /\ [][StateNext]_state_vars /\ WF_state_vars(Step)

-----------------------------------------------------------------------------
(* The PF and the GuC go through an FLR in step: the command the state     *)
(* worker is waiting for is a FINISH exactly when the GuC has started the  *)
(* FLR of that VF, and by then the GuC is done with it.  So what the VF    *)
(* left behind is cleared after the GuC has stopped it and before it runs  *)
(* again.  Not claimed once FLR_FAILED is set, nor on a gt whose bits were *)
(* cleared by a resume under an FLR in flight.                             *)
FlrInStep ==
    /\ StateTypeOK
    /\ \A g \in Gts :
        LET c == call[g]
        IN  (c.res = "sent" /\ ~Has(g, c.vf, "FLR_FAILED") /\ g \notin wiped)
                => (c.cmd = "FINISH" <=> guc[g][c.vf] \in {"flr", "done"})
                   /\ guc[g][c.vf] # "flr"

(* A START of the VF is still to come from the worker of gt g. *)
StartToCome(g, v) ==
    Has(g, v, "NEEDS_FLR_START") \/ (call[g].cmd = "START" /\ call[g].vf = v)

(* pf_init_vf_flr() drops the notification of an FLR that the GuC has yet  *)
(* to be told to start only while the worker is on the FINISH of the FLR   *)
(* before: in every other case the FLR in progress is the one notified.    *)
DropOnlyAtFinish ==
    [][ \A v \in VfIds :
          (/\ events[Root] # <<>>
           /\ Len(events'[Root]) < Len(events[Root])
           /\ Head(events[Root]) = [ev |-> "FLR", vf |-> v]
           /\ guc[Root][v] = "notified"
           /\ ~StartToCome(Root, v)')
          => (call[Root].cmd = "FINISH" /\ call[Root].vf = v) \/ Root \in wiped' ]_state_vars

VfSettled(g, v) ==
    /\ NoFlr(g, v)
    /\ Has(g, v, "PAUSE_IN_PROGRESS") => guc[g][v] \in {"notified", "stopped"}

(* Every FLR the PF has begun ends, and so does every pause, unless the VF *)
(* is stopped or waits for an FLR that could not be started: the bits that *)
(* make pause_vf() and the FLR waiters refuse are not left set.            *)
Settles == <>[](\A g \in Gts, v \in VfIds : VfSettled(g, v))

(* After a system resume no VF is left paused that the suspend paused.     *)
Restored ==
    (thread[Pm] = Idle) => \A p \in inferred : guc[p[1]][p[2]] # "paused"

(* The PF takes the VF for paused on the root gt only when it is.          *)
RootPaused ==
    \A v \in VfIds :
        (paused[Root][v] /\ \A t \in Threads : call[t] = NoCall)
            => guc[Root][v] \notin {"run", "pausing"}

(* Every FLR that the GuC has notified is started.                         *)
FlrServed == <>[](\A v \in VfIds : guc[Root][v] # "notified")
=============================================================================
