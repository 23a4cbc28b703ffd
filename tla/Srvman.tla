------------------------------- MODULE Srvman -------------------------------
(***************************************************************************)
(* The smapd server manager (src/src/srvman.c) driven by smap_daemon()    *)
(* (src/src/smapd.c): servers are opened, the single-threaded parent runs  *)
(* the select/accept/fork loop, children are reaped through the           *)
(* SIGCHLD-flag-plus-waitpid pattern, and the shutdown sequence signals,  *)
(* polls and kills the children.                                          *)
(*                                                                         *)
(* Signals are raised asynchronously (a child exits, an operator sends    *)
(* SIGTERM) and their handler runs between any two steps of the parent.   *)
(* A handler that runs while the parent is blocked in pause() or select() *)
(* interrupts the call; one that runs just before the call does not.      *)
(***************************************************************************)
EXTENDS Naturals, FiniteSets, FiniteSetsExt, Functions

CONSTANTS
    NumServers,         \* servers declared in the configuration, in list order
    MaxChildren,        \* [Servers -> Nat]: per-server max-children, 0 = no limit
    GlobalMaxChildren,  \* srvman_param.max_children, 0 = no limit
    Pids,               \* the process ids the kernel can hand out to children
    Backlog,            \* connections the kernel queues on one listener
    ShutdownTimeout,    \* srvman_param.shutdown_timeout, in seconds
    AcceptMayFail       \* whether accept(2) may fail with a non-EINTR error

Servers == 1..NumServers

ASSUME /\ NumServers \in Nat \ {0}
       /\ MaxChildren \in [Servers -> Nat]
       /\ GlobalMaxChildren \in Nat
       /\ Backlog \in Nat \ {0}
       /\ ShutdownTimeout \in Nat \ {0}
       /\ AcceptMayFail \in BOOLEAN

VARIABLES
    srv,            \* [Servers -> state]: "closed" (not yet opened), "listening"
                    \*   (fd valid), "shutdown" (fd = -1), "removed" (freed)
    pidtab,         \* [Servers -> SUBSET Pids]: srv->pidtab, the registered children
    num_children,   \* [Servers -> Nat]: srv->num_children
    total_children, \* srvman.num_children
    child,          \* [Pids -> {"free", "running", "exited"}]: kernel view of a pid
    need_cleanup,   \* the SIGCHLD flag
    stop,           \* the stop flag set by the SIGTERM/SIGINT/SIGQUIT/SIGHUP handler
    sigpending,     \* signals raised for the parent whose handler has not run yet
    pc,             \* where the parent is in smap_daemon()
    fdset,          \* the descriptor set last computed by compute_fdset()
    recompute_fd,   \* recompute_fd of smap_srvman_run()
    rdset,          \* ready servers connection_loop() has not yet visited
    loop_rc,        \* the value connection_loop() accumulates
    pending,        \* [Servers -> 0..Backlog]: connections queued by the kernel
    elapsed         \* seconds slept by smap_srvman_shutdown()

vars == <<srv, pidtab, num_children, total_children, child, need_cleanup, stop,
          sigpending, pc, fdset, recompute_fd, rdset, loop_rc, pending, elapsed>>

(* Parent program counters.  "pausing_*" and "selecting" are the instants  *)
(* after the loop has decided to block and before the system call is made. *)
RunPcs == {"top", "pausing_idle", "paused_idle", "pausing_max", "paused_max",
           "selecting", "in_select", "accepting"}
ShutdownPcs == {"sd_term", "sd_reap", "sd_kill", "sd_free"}
Pcs == {"open", "done"} \cup RunPcs \cup ShutdownPcs

Signals == {"CHLD", "STOP"}

InList == {s \in Servers : srv[s] \notin {"closed", "removed"}}

\* Mutant: the limit test compares with > instead of >=.
SERVER_BUSY_gt(s) == MaxChildren[s] # 0 /\ num_children[s] > MaxChildren[s]

\* SERVER_BUSY(srv): the server has run out of its children limit.
SERVER_BUSY(s) == MaxChildren[s] # 0 /\ num_children[s] >= MaxChildren[s]

\* compute_fdset(): every listed server that is not busy.
compute_fdset(nc) ==
    {s \in InList : ~(MaxChildren[s] # 0 /\ nc[s] >= MaxChildren[s])}

\* children_cleanup(): waitpid(-1, WNOHANG) until nothing is left reaps every
\* exited child; unregister_child() clears its pidtab slot, decrements both
\* counters and reports whether its server was busy before the decrement.
Exited == {p \in Pids : child[p] = "exited"}
ReapedOf(s) == pidtab[s] \cap Exited
CleanupRc == \E s \in InList : ReapedOf(s) # {} /\ SERVER_BUSY(s)
\* Mutant: unregister_child() decrements the counters but keeps the pid slot.
children_cleanup_keepslot ==
    /\ child' = [p \in Pids |-> IF child[p] = "exited" THEN "free" ELSE child[p]]
    /\ pidtab' = pidtab
    /\ num_children' = [s \in Servers |-> num_children[s] - Cardinality(ReapedOf(s))]
    /\ total_children' = total_children
                         - SumFunction([s \in Servers |-> Cardinality(ReapedOf(s))])
children_cleanup ==
    /\ child' = [p \in Pids |-> IF child[p] = "exited" THEN "free" ELSE child[p]]
    /\ pidtab' = [s \in Servers |-> pidtab[s] \ Exited]
    /\ num_children' = [s \in Servers |-> num_children[s] - Cardinality(ReapedOf(s))]
    /\ total_children' = total_children
                         - SumFunction([s \in Servers |-> Cardinality(ReapedOf(s))])

-----------------------------------------------------------------------------
(* smap_srvman_open(): server_open() on each server in turn; a server that *)
(* cannot be opened is freed.                                              *)
server_open(s) ==
    /\ pc = "open"
    /\ srv[s] = "closed"
    /\ \A x \in 1..(s - 1) : srv[x] # "closed"
    /\ \/ srv' = [srv EXCEPT ![s] = "listening"]
       \/ srv' = [srv EXCEPT ![s] = "removed"]
    /\ UNCHANGED <<pidtab, num_children, total_children, child, need_cleanup,
                   stop, sigpending, pc, fdset, recompute_fd, rdset, loop_rc,
                   pending, elapsed>>

(* smap_daemon() after smap_srvman_open(): exit with EX_CONFIG when no     *)
(* server is left, otherwise enter smap_srvman_run(), whose for-loop       *)
(* starts by clearing stop.                                                *)
smap_srvman_run ==
    /\ pc = "open"
    /\ \A s \in Servers : srv[s] # "closed"
    /\ IF InList = {}
       THEN /\ pc' = "done"
            /\ UNCHANGED <<stop, recompute_fd>>
       ELSE /\ pc' = "top"
            /\ stop' = FALSE
            /\ recompute_fd' = TRUE
    /\ UNCHANGED <<srv, pidtab, num_children, total_children, child,
                   need_cleanup, sigpending, fdset, rdset, loop_rc, pending,
                   elapsed>>

(* One pass of the main loop up to the point where it blocks: the loop     *)
(* condition, the need_cleanup block, the recompute_fd block and the       *)
(* choice between pause() for no active descriptor, pause() for the        *)
(* global limit, and select().                                             *)
LoopTop ==
    /\ pc = "top"
    /\ IF stop \/ InList = {}
       THEN /\ pc' = "sd_term"
            /\ UNCHANGED <<pidtab, num_children, total_children, child,
                           need_cleanup, fdset, recompute_fd>>
       ELSE LET recompute == IF need_cleanup THEN CleanupRc ELSE recompute_fd
                nc == IF need_cleanup
                      THEN [s \in Servers |-> num_children[s] - Cardinality(ReapedOf(s))]
                      ELSE num_children
                tc == IF need_cleanup
                      THEN total_children
                           - SumFunction([s \in Servers |-> Cardinality(ReapedOf(s))])
                      ELSE total_children
                fds == IF recompute THEN compute_fdset(nc) ELSE fdset
            IN /\ IF need_cleanup
                  THEN /\ children_cleanup
                       /\ need_cleanup' = FALSE
                  ELSE UNCHANGED <<pidtab, num_children, total_children, child,
                                   need_cleanup>>
               /\ fdset' = fds
               /\ recompute_fd' = FALSE
               /\ pc' = CASE fds = {} -> "pausing_idle"
                          [] GlobalMaxChildren # 0 /\ tc >= GlobalMaxChildren
                                                 -> "pausing_max"
                          [] OTHER               -> "selecting"
    /\ UNCHANGED <<srv, stop, sigpending, rdset, loop_rc, pending, elapsed>>

\* The pause() call itself, in either branch.
pause ==
    /\ \/ pc = "pausing_idle" /\ pc' = "paused_idle"
       \/ pc = "pausing_max" /\ pc' = "paused_max"
    /\ UNCHANGED <<srv, pidtab, num_children, total_children, child,
                   need_cleanup, stop, sigpending, fdset, recompute_fd, rdset,
                   loop_rc, pending, elapsed>>

\* The select() call on the descriptor set computed last.
select ==
    /\ pc = "selecting"
    /\ pc' = "in_select"
    /\ UNCHANGED <<srv, pidtab, num_children, total_children, child,
                   need_cleanup, stop, sigpending, fdset, recompute_fd, rdset,
                   loop_rc, pending, elapsed>>

\* select() returns the listeners of fdset that have a queued connection.
SelectReady ==
    /\ pc = "in_select"
    /\ LET ready == {s \in fdset : srv[s] = "listening" /\ pending[s] > 0}
       IN /\ ready # {}
          /\ rdset' = ready
    /\ loop_rc' = FALSE
    /\ pc' = "accepting"
    /\ UNCHANGED <<srv, pidtab, num_children, total_children, child,
                   need_cleanup, stop, sigpending, fdset, recompute_fd,
                   pending, elapsed>>

(* connection_loop() visits the ready servers in list order and calls      *)
(* server_accept() on each; the or of their results becomes recompute_fd.  *)
(* server_accept(): a busy server is skipped; a failing accept() shuts the *)
(* server down and frees it; otherwise server_run() either forks a child   *)
(* and registers it or drops the connection (tcp-wrapper refusal, fork()   *)
(* failure, no free pid).                                                  *)
AcceptDone(s, rc) ==
    /\ rdset' = rdset \ {s}
    /\ loop_rc' = (loop_rc \/ rc)
    /\ IF rdset' = {}
       THEN pc' = "top" /\ recompute_fd' = loop_rc'
       ELSE UNCHANGED <<pc, recompute_fd>>

register_child(s, p) ==
    /\ child' = [child EXCEPT ![p] = "running"]
    /\ pidtab' = [pidtab EXCEPT ![s] = @ \cup {p}]
    /\ num_children' = [num_children EXCEPT ![s] = @ + 1]
    /\ total_children' = total_children + 1

server_accept(s) ==
    /\ pc = "accepting"
    /\ s \in rdset
    /\ s = Min(rdset)
    /\ \/ /\ SERVER_BUSY(s)
          /\ AcceptDone(s, TRUE)
          /\ UNCHANGED <<srv, pidtab, num_children, total_children, child, pending>>
       \/ /\ ~SERVER_BUSY(s)
          /\ AcceptMayFail
          /\ srv' = [srv EXCEPT ![s] = "removed"]
          /\ pidtab' = [pidtab EXCEPT ![s] = {}]
          /\ pending' = [pending EXCEPT ![s] = 0]
          /\ AcceptDone(s, TRUE)
          /\ UNCHANGED <<num_children, total_children, child>>
       \/ /\ ~SERVER_BUSY(s)
          /\ pending' = [pending EXCEPT ![s] = @ - 1]
          /\ AcceptDone(s, FALSE)
          /\ \/ \E p \in Pids : child[p] = "free" /\ register_child(s, p)
             \/ UNCHANGED <<pidtab, num_children, total_children, child>>
          /\ UNCHANGED srv
    /\ UNCHANGED <<need_cleanup, stop, sigpending, fdset, elapsed>>

-----------------------------------------------------------------------------
(* The handler of a pending signal runs.  srvman_signal() sets need_cleanup *)
(* for SIGCHLD, sig_stop()/sig_restart() set stop.  pause() returns after   *)
(* any handler (the idle branch then sets recompute_fd); select() fails     *)
(* with EINTR and the loop continues.                                       *)
srvman_signal(sig) ==
    /\ sig \in sigpending
    /\ sigpending' = sigpending \ {sig}
    /\ IF sig = "CHLD" THEN need_cleanup' = TRUE /\ UNCHANGED stop
                       ELSE stop' = TRUE /\ UNCHANGED need_cleanup
    /\ CASE pc = "paused_idle" -> pc' = "top" /\ recompute_fd' = TRUE
         [] pc \in {"paused_max", "in_select"} -> pc' = "top" /\ UNCHANGED recompute_fd
         [] OTHER -> UNCHANGED <<pc, recompute_fd>>
    /\ UNCHANGED <<srv, pidtab, num_children, total_children, child, fdset,
                   rdset, loop_rc, pending, elapsed>>

(* A child's session ends (the client disconnects or the idle alarm fires): *)
(* it exits and becomes a zombie; while smap_srvman_run() has its handler   *)
(* installed, SIGCHLD is raised for the parent.                             *)
ChildExit(p) ==
    /\ child[p] = "running"
    /\ child' = [child EXCEPT ![p] = "exited"]
    /\ sigpending' = IF pc \in RunPcs THEN sigpending \cup {"CHLD"} ELSE sigpending
    /\ UNCHANGED <<srv, pidtab, num_children, total_children, need_cleanup, stop,
                   pc, fdset, recompute_fd, rdset, loop_rc, pending, elapsed>>

\* A client connects to a listener; the kernel queues it up to the backlog.
Connect(s) ==
    /\ srv[s] = "listening"
    /\ pending[s] < Backlog
    /\ pending' = [pending EXCEPT ![s] = @ + 1]
    /\ UNCHANGED <<srv, pidtab, num_children, total_children, child, need_cleanup,
                   stop, sigpending, pc, fdset, recompute_fd, rdset, loop_rc,
                   elapsed>>

\* The operator sends SIGTERM (or SIGINT, SIGQUIT, SIGHUP) to the daemon.
SendStop ==
    /\ pc \in {"open"} \cup RunPcs
    /\ sigpending' = sigpending \cup {"STOP"}
    /\ UNCHANGED <<srv, pidtab, num_children, total_children, child, need_cleanup,
                   stop, pc, fdset, recompute_fd, rdset, loop_rc, pending, elapsed>>

-----------------------------------------------------------------------------
(* smap_srvman_shutdown().  SIGTERM reaches each registered child, whose    *)
(* handler for it is the sig_stop() inherited from smap_daemon():           *)
(* restore_signal_handlers() in the child only resets SIGCHLD, so the       *)
(* child keeps serving.                                                     *)
ShutdownTerm ==
    /\ pc = "sd_term"
    /\ pc' = "sd_reap"
    /\ elapsed' = 0
    /\ UNCHANGED <<srv, pidtab, num_children, total_children, child, need_cleanup,
                   stop, sigpending, fdset, recompute_fd, rdset, loop_rc, pending>>

\* Mutant: the elapsed time is measured from a start re-read on every pass.
ShutdownReap_restart ==
    /\ pc = "sd_reap"
    /\ children_cleanup
    /\ IF total_children' = 0
       THEN pc' = "sd_kill" /\ UNCHANGED elapsed
       ELSE /\ elapsed' = elapsed
            /\ pc' = IF elapsed' + 1 < ShutdownTimeout THEN "sd_reap" ELSE "sd_kill"
    /\ UNCHANGED <<srv, need_cleanup, stop, sigpending, fdset, recompute_fd,
                   rdset, loop_rc, pending>>

\* Mutant: the loop condition is <= instead of <, one sleep too many.
ShutdownReap_le ==
    /\ pc = "sd_reap"
    /\ children_cleanup
    /\ IF total_children' = 0
       THEN pc' = "sd_kill" /\ UNCHANGED elapsed
       ELSE /\ elapsed' = elapsed + 1
            /\ pc' = IF elapsed' <= ShutdownTimeout THEN "sd_reap" ELSE "sd_kill"
    /\ UNCHANGED <<srv, need_cleanup, stop, sigpending, fdset, recompute_fd,
                   rdset, loop_rc, pending>>

\* do { children_cleanup(); if none left break; sleep(1); } while (time < timeout)
ShutdownReap ==
    /\ pc = "sd_reap"
    /\ children_cleanup
    /\ IF total_children' = 0
       THEN pc' = "sd_kill" /\ UNCHANGED elapsed
       ELSE /\ elapsed' = elapsed + 1
            /\ pc' = IF elapsed' < ShutdownTimeout THEN "sd_reap" ELSE "sd_kill"
    /\ UNCHANGED <<srv, need_cleanup, stop, sigpending, fdset, recompute_fd,
                   rdset, loop_rc, pending>>

\* Mutant: the SIGKILL pass is left out; only the listeners are closed.
ShutdownKill_nokill ==
    /\ pc = "sd_kill"
    /\ srv' = [s \in Servers |-> IF srv[s] = "listening" THEN "shutdown" ELSE srv[s]]
    /\ pc' = "sd_free"
    /\ UNCHANGED <<pidtab, num_children, total_children, child, need_cleanup, stop,
                   sigpending, fdset, recompute_fd, rdset, loop_rc, pending, elapsed>>

(* SIGKILL to every registered child and smap_server_shutdown() of every   *)
(* server: the killed children become zombies nobody reaps.                *)
ShutdownKill ==
    /\ pc = "sd_kill"
    /\ LET killed == UNION {pidtab[s] : s \in InList}
       IN child' = [p \in Pids |-> IF p \in killed /\ child[p] = "running"
                                   THEN "exited" ELSE child[p]]
    /\ srv' = [s \in Servers |-> IF srv[s] = "listening" THEN "shutdown" ELSE srv[s]]
    /\ pc' = "sd_free"
    /\ UNCHANGED <<pidtab, num_children, total_children, need_cleanup, stop,
                   sigpending, fdset, recompute_fd, rdset, loop_rc, pending, elapsed>>

\* smap_srvman_free(): every server is freed; the daemon exits or re-execs.
smap_srvman_free ==
    /\ pc = "sd_free"
    /\ srv' = [s \in Servers |-> "removed"]
    /\ pc' = "done"
    /\ UNCHANGED <<pidtab, num_children, total_children, child, need_cleanup,
                   stop, sigpending, fdset, recompute_fd, rdset, loop_rc,
                   pending, elapsed>>

\* The process has terminated (or exec'ed a fresh image).
Terminated == pc = "done" /\ UNCHANGED vars

-----------------------------------------------------------------------------
Init ==
    /\ srv = [s \in Servers |-> "closed"]
    /\ pidtab = [s \in Servers |-> {}]
    /\ num_children = [s \in Servers |-> 0]
    /\ total_children = 0
    /\ child = [p \in Pids |-> "free"]
    /\ need_cleanup = FALSE
    /\ stop = FALSE
    /\ sigpending = {}
    /\ pc = "open"
    /\ fdset = {}
    /\ recompute_fd = TRUE
    /\ rdset = {}
    /\ loop_rc = FALSE
    /\ pending = [s \in Servers |-> 0]
    /\ elapsed = 0

Parent ==
    \/ \E s \in Servers : server_open(s)
    \/ smap_srvman_run
    \/ LoopTop
    \/ pause
    \/ select
    \/ SelectReady
    \/ \E s \in Servers : server_accept(s)
    \/ ShutdownTerm
    \/ ShutdownReap
    \/ ShutdownKill
    \/ smap_srvman_free

Next ==
    \/ Parent
    \/ \E sig \in Signals : srvman_signal(sig)
    \/ \E p \in Pids : ChildExit(p)
    \/ \E s \in Servers : Connect(s)
    \/ SendStop
    \/ Terminated

(* The parent gets the CPU, a pending handler runs once the parent runs,   *)
(* and every child's session ends (smap_loop() arms alarm(idle_timeout)    *)
(* around each read).  Clients and the operator owe nothing.               *)
Fairness ==
    /\ WF_vars(Parent)
    /\ \A sig \in Signals : WF_vars(srvman_signal(sig))
    /\ \A p \in Pids : WF_vars(ChildExit(p))

Spec == Init /\ [][Next]_vars /\ Fairness

-----------------------------------------------------------------------------
TypeOK ==
    /\ srv \in [Servers -> {"closed", "listening", "shutdown", "removed"}]
    /\ pidtab \in [Servers -> SUBSET Pids]
    /\ num_children \in [Servers -> Nat]
    /\ total_children \in Nat
    /\ child \in [Pids -> {"free", "running", "exited"}]
    /\ need_cleanup \in BOOLEAN
    /\ stop \in BOOLEAN
    /\ sigpending \in SUBSET Signals
    /\ pc \in Pcs
    /\ fdset \in SUBSET Servers
    /\ recompute_fd \in BOOLEAN
    /\ rdset \in SUBSET Servers
    /\ loop_rc \in BOOLEAN
    /\ pending \in [Servers -> 0..Backlog]
    /\ elapsed \in 0..ShutdownTimeout

(* Per-server admission control: a server with max-children N never has   *)
(* more than N registered children.  compute_fdset() leaves a busy server  *)
(* out of select(), but the set is not recomputed after a fork, so the     *)
(* limit rests on the SERVER_BUSY test in server_accept().                 *)
PerServerLimit ==
    \A s \in InList : MaxChildren[s] # 0 => num_children[s] <= MaxChildren[s]

(* Child bookkeeping: each server's counter is the size of its pid table,  *)
(* the global counter is their sum, and a pid table only holds pids that   *)
(* are still this daemon's unreaped children, so the kill() calls of the   *)
(* shutdown never hit a pid the kernel may have recycled.  It holds until *)
(* smap_srvman_free() discards the tables.                                 *)
ChildAccounting ==
    pc # "done" =>
    /\ \A s \in InList : num_children[s] = Cardinality(pidtab[s])
    /\ total_children = SumFunction([s \in InList |-> num_children[s]])
    /\ \A s \in InList : \A p \in pidtab[s] : child[p] # "free"
    /\ \A s, t \in InList : s # t => pidtab[s] \cap pidtab[t] = {}

(* When smap_daemon() has finished its shutdown no child it forked is      *)
(* still serving a connection: the stragglers the SIGTERM left running     *)
(* have been SIGKILLed.                                                    *)
NoOrphanAtExit ==
    pc = "done" => \A p \in Pids : child[p] # "running"

(* Once the main loop has ended, the shutdown sequence finishes: the       *)
(* polling loop of smap_srvman_shutdown() is bounded by shutdown-timeout.  *)
ShutdownTerminates ==
    (pc \in ShutdownPcs) ~> (pc = "done")

(* A stop request that sig_stop() (SIGTERM, SIGQUIT) or sig_restart()      *)
(* (SIGHUP) has recorded while the servers are being opened is acted on: *)
(* the daemon eventually finishes its shutdown.                           *)
StopHonoured == (stop /\ pc = "open") ~> (pc = "done")

(* Global admission control: the number of running sub-processes never     *)
(* exceeds the global max-children.                                        *)
GlobalLimit ==
    GlobalMaxChildren # 0 => total_children <= GlobalMaxChildren

(* A server that has room for another child again (its child has exited)   *)
(* eventually accepts the connection waiting on it, while the main loop    *)
(* runs: the deferred connection of the max-children scenario is served.   *)
RunningOf(s) == Cardinality({p \in pidtab[s] : child[p] = "running"})
HasRoom(s) == MaxChildren[s] = 0 \/ RunningOf(s) < MaxChildren[s]
DeferredConnectionServed ==
    \A s \in Servers :
        (pc \in RunPcs /\ srv[s] = "listening" /\ pending[s] > 0 /\ HasRoom(s))
            ~> (pc \notin RunPcs \/ srv[s] # "listening" \/ pending[s] = 0
                \/ ~HasRoom(s))

(* No signal the daemon handles is lost: a stop request recorded while the *)
(* servers are opened ends the daemon (sig_stop, smap_srvman_run), and a   *)
(* SIGCHLD that gives a server room lets its queued connection be served    *)
(* (sig_child, the pause()/select() of smap_srvman_run).                   *)
SignalsActedOn == StopHonoured /\ DeferredConnectionServed
=============================================================================
