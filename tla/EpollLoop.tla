----------------------------- MODULE EpollLoop -----------------------------
(***************************************************************************)
(* io::epoll_loop, the event loop of the Linux build, and the thread in    *)
(* scheduler::run() that resumes what dispatch() yields.                   *)
(*                                                                         *)
(* <<t, n>> is the coroutine of the n-th epoll_loop::queue() of task t,    *)
(* whose address the kernel keeps as the data of the descriptor.  Using a  *)
(* null or a garbage address as a coroutine, or resuming one that is not   *)
(* suspended, is undefined: the cause is recorded and the model stops.     *)
(*                                                                         *)
(* The kernel, from how the loop uses it: a descriptor has one             *)
(* registration; EPOLLHUP and EPOLLERR are reported whatever its mask, and *)
(* EPOLLONESHOT silences the registration altogether once it is reported.  *)
(***************************************************************************)
EXTENDS Integers, FiniteSets

CONSTANTS
    Tasks,      \* coroutines that await operations
    Fds,        \* descriptors of sockets, open throughout
    Ops,        \* Ops[t]: the operations [fd, op, timeout] t may await
    MaxOps,     \* MaxOps[t]: bound on the operations of t
    Peers,      \* Peers[fd]: what the peer of fd may do
    MaxPeer,    \* bound on what the peers have done that is still pending
    MaxTime,    \* bound on the clock
    MaxEvents   \* length of the array dispatch() gives to epoll_wait()

Conditions == {"data", "space", "end", "reset"}

ASSUME EpollAssumption ==
    /\ IsFiniteSet(Tasks) /\ IsFiniteSet(Fds)
    /\ \A t \in Tasks : Ops[t] \subseteq
         [fd : Fds, op : {"read", "write", "read_write"}, timeout : Nat]
    /\ \A t \in Tasks : MaxOps[t] \in Nat
    /\ \A fd \in Fds : Peers[fd] \subseteq Conditions
    /\ MaxPeer \in Nat /\ MaxTime \in Nat /\ MaxEvents \in Nat \ {0}

VARIABLES
    running,       \* epoll_loop::running
    interest,      \* registered descriptors -> [events, data, oneshot]
    socket,        \* what has happened at each descriptor
    now,           \* clock::now()
    timer,         \* when timer_fd expires, or -1
    shutdown_fd,   \* has shutdown_fd been written?
    timeout_list,
    arming,        \* operations between epoll_ctl() and the timeout list
    pc,            \* the thread in run(): "check", "wait", "yield", "done"
    batch,         \* data of the events dispatch() has yet to yield
    handed,        \* coroutines given to the thread pool
    ops,           \* operations each task has begun
    waiting,       \* what each task awaits: [fd, op], or NoOp
    lost,          \* history: operations whose registration was taken away
    undefined      \* history: the first undefined behaviour, or "none"

kernelVars == <<interest, socket, now, timer, shutdown_fd>>
loopVars   == <<running, timeout_list, arming>>
runVars    == <<pc, batch>>
taskVars   == <<handed, ops, waiting, lost>>
vars       == <<kernelVars, loopVars, runVars, taskVars, undefined>>

NoOp == [fd |-> "none", op |-> "none"]
Current(t) == <<t, ops[t]>>

is_readable(op) == op \in {"read", "read_write"}
is_writable(op) == op \in {"write", "read_write"}

convert_poll_op(op) ==
    (IF is_readable(op) THEN {"IN"} ELSE {}) \cup
    (IF is_writable(op) THEN {"OUT"} ELSE {})

(* The events the kernel reports for a descriptor.  The peer may have sent  *)
(* data, made space, shut its side down or reset the connection.            *)
Events(fd) ==
    (IF socket[fd] \cap {"data", "end", "reset"} # {} THEN {"IN"} ELSE {}) \cup
    (IF socket[fd] \cap {"space", "reset"} # {} THEN {"OUT"} ELSE {}) \cup
    (IF socket[fd] \cap {"end", "reset"} # {} THEN {"RDHUP"} ELSE {}) \cup
    (IF "reset" \in socket[fd] THEN {"HUP", "ERR"} ELSE {})

Reported(fd) ==
    /\ fd \in DOMAIN interest
    /\ interest[fd].events \cap Events(fd) # {}

(* The constructor stores the number of the descriptor in the member fd of  *)
(* the union of which dispatch() reads the member ptr: the address is the   *)
(* one of neither member of the loop.                                       *)
TimerData    == <<"timer_fd", 0>>
ShutdownData == <<"shutdown_fd", 0>>
Null         == <<"null", 0>>

(* Mutant: without EPOLLONESHOT the registration is reported again.         *)
SilentNever(r) == r

Registration(events, data, oneshot) ==
    [events |-> events \cup {"HUP", "ERR"}, data |-> data, oneshot |-> oneshot]
Silent(r) == [r EXCEPT !.events = {}]

Init ==
    /\ running = TRUE
    /\ interest = [fd \in {} |-> Null]
    /\ socket = [fd \in Fds |-> {}]
    /\ now = 0 /\ timer = -1 /\ shutdown_fd = FALSE
    /\ timeout_list = {} /\ arming = {}
    /\ pc = "check" /\ batch = {}
    /\ handed = {}
    /\ ops = [t \in Tasks |-> 0]
    /\ waiting = [t \in Tasks |-> NoOp]
    /\ lost = {}
    /\ undefined = "none"

-----------------------------------------------------------------------------
(* Descriptors.  An operation that was registered for a descriptor and has  *)
(* not been reported loses its registration when the descriptor does.       *)

Registered(fd) ==
    IF fd \in DOMAIN interest /\ interest[fd].events # {}
    THEN {interest[fd].data} \ {Null} ELSE {}

register_handle(fd) ==
    /\ interest' = IF fd \in DOMAIN interest THEN interest
                   ELSE [f \in DOMAIN interest \cup {fd} |->
                           IF f = fd THEN Registration({}, Null, FALSE) ELSE interest[f]]
    /\ UNCHANGED <<socket, now, timer, shutdown_fd, loopVars, runVars, taskVars, undefined>>

deregister_handle(fd) ==
    /\ interest' = [f \in DOMAIN interest \ {fd} |-> interest[f]]
    /\ lost' = lost \cup Registered(fd)
    /\ UNCHANGED <<socket, now, timer, shutdown_fd, loopVars, runVars, handed, ops, waiting, undefined>>

Peer(fd, what) ==
    /\ what \notin socket[fd]
    /\ Cardinality({fw \in Fds \X Conditions : fw[2] \in socket[fw[1]]}) < MaxPeer
    /\ socket' = [socket EXCEPT ![fd] = @ \cup {what}]
    /\ UNCHANGED <<interest, now, timer, shutdown_fd, loopVars, runVars, taskVars, undefined>>

Tick ==
    /\ now < MaxTime
    /\ now' = now + 1
    /\ UNCHANGED <<interest, socket, timer, shutdown_fd, loopVars, runVars, taskVars, undefined>>

-----------------------------------------------------------------------------
(* co_await operation{...}.  Bytes waiting to be read, or to be sent, make  *)
(* await_ready() return true; await_resume() then reads the promise of a    *)
(* coroutine that await_suspend() never stored.                             *)

roughly_get_socket_buffer_size(fd, op) ==
    CASE is_readable(op) -> IF "data" \in socket[fd] THEN {1} ELSE {0}
      [] OTHER           -> {0, 1}

Idle(t) == waiting[t] = NoOp /\ ops[t] < MaxOps[t]

AwaitReady(t, fd, op) ==
    /\ Idle(t)
    /\ \E count \in roughly_get_socket_buffer_size(fd, op) : count > 0
    /\ undefined' = "await_resume"
    /\ UNCHANGED <<kernelVars, loopVars, runVars, taskVars>>

(* await_suspend(): the kernel may report the event, and a worker resume    *)
(* the coroutine, before the rest of queue() has run.                       *)
AwaitSuspend(t, fd, op, timeout) ==
    /\ Idle(t)
    /\ 0 \in roughly_get_socket_buffer_size(fd, op)
    /\ fd \in DOMAIN interest
    /\ ops' = [ops EXCEPT ![t] = @ + 1]
    /\ waiting' = [waiting EXCEPT ![t] = [fd |-> fd, op |-> op]]
    /\ interest' = [interest EXCEPT ![fd] =
                      Registration(convert_poll_op(op) \cup {"RDHUP"}, Current(t)', TRUE)]
    /\ lost' = lost \cup Registered(fd)
    /\ arming' = IF timeout > 0 THEN arming \cup {<<Current(t)', timeout>>} ELSE arming
    /\ UNCHANGED <<socket, now, timer, shutdown_fd, running, timeout_list, runVars, handed, undefined>>

(* epoll_ctl() fails for a descriptor that is not registered, and the       *)
(* exception ends the operation.                                            *)
AwaitThrows(t, fd, op) ==
    /\ Idle(t)
    /\ 0 \in roughly_get_socket_buffer_size(fd, op)
    /\ fd \notin DOMAIN interest
    /\ ops' = [ops EXCEPT ![t] = @ + 1]
    /\ UNCHANGED <<kernelVars, loopVars, runVars, handed, waiting, lost, undefined>>

(* std::priority_queue: the top is the latest of the deadlines.             *)
IsTop(e) == e \in timeout_list /\ \A o \in timeout_list : o.timeout_at <= e.timeout_at

(* One expiration, so long from now.                                        *)
update_timer(timeout) == timer' = now + timeout

ArmTimeout(handle, timeout) ==
    LET timeout_at == now + timeout
    IN  /\ <<handle, timeout>> \in arming
        /\ arming' = arming \ {<<handle, timeout>>}
        /\ IF timeout_list = {} \/ \E e \in timeout_list : IsTop(e) /\ e.timeout_at > timeout_at
           THEN update_timer(timeout) ELSE UNCHANGED timer
        /\ timeout_list' = timeout_list \cup {[handle |-> handle, timeout_at |-> timeout_at]}
        /\ UNCHANGED <<interest, socket, now, shutdown_fd, running, runVars, taskVars, undefined>>

-----------------------------------------------------------------------------
(* dispatch(), called by run() until the loop is shut down.                 *)

Check ==
    /\ pc = "check"
    /\ pc' = IF running THEN "wait" ELSE "done"
    /\ UNCHANGED <<kernelVars, loopVars, batch, taskVars, undefined>>

Sources ==
    {<<"socket", fd>> : fd \in {f \in Fds : Reported(f)}} \cup
    (IF timer # -1 /\ timer <= now THEN {<<"timer", 0>>} ELSE {}) \cup
    (IF shutdown_fd THEN {<<"shutdown", 0>>} ELSE {})

DataOf(s) ==
    CASE s[1] = "socket" -> interest[s[2]].data
      [] s[1] = "timer"  -> TimerData
      [] OTHER           -> ShutdownData

(* Mutant: of the events it was given, dispatch() looks at one only.        *)
EpollWaitOne ==
    /\ pc = "wait"
    /\ \E events \in SUBSET Sources, s \in Sources :
         /\ s \in events /\ Cardinality(events) <= MaxEvents
         /\ batch' = {DataOf(s)}
         /\ interest' = [fd \in DOMAIN interest |->
                           IF <<"socket", fd>> \in events /\ interest[fd].oneshot
                           THEN Silent(interest[fd]) ELSE interest[fd]]
    /\ pc' = "yield"
    /\ UNCHANGED <<socket, now, timer, shutdown_fd, loopVars, taskVars, undefined>>

(* The address an event carries is never &timer_fd or &shutdown_fd, so the  *)
(* branches for the two are not taken.                                      *)
EpollWait ==
    /\ pc = "wait"
    /\ \E events \in SUBSET Sources :
         /\ events # {} /\ Cardinality(events) <= MaxEvents
         /\ Sources # events => Cardinality(events) = MaxEvents
         /\ batch' = {DataOf(s) : s \in events}
         /\ interest' = [fd \in DOMAIN interest |->
                           IF <<"socket", fd>> \in events /\ interest[fd].oneshot
                           THEN Silent(interest[fd]) ELSE interest[fd]]
    /\ pc' = "yield"
    /\ UNCHANGED <<socket, now, timer, shutdown_fd, loopVars, taskVars, undefined>>

Suspended(data) ==
    \E t \in Tasks : data = Current(t) /\ waiting[t] # NoOp /\ data \notin handed

Yield(data) ==
    /\ pc = "yield" /\ data \in batch
    /\ batch' = batch \ {data}
    /\ handed' = IF Suspended(data) THEN handed \cup {data} ELSE handed
    /\ undefined' = CASE Suspended(data) -> undefined
                      [] data \in {Null, TimerData, ShutdownData} -> data[1]
                      [] OTHER -> "resumed twice"
    /\ UNCHANGED <<kernelVars, loopVars, pc, ops, waiting, lost>>

BatchEnds ==
    /\ pc = "yield" /\ batch = {}
    /\ pc' = "check"
    /\ UNCHANGED <<kernelVars, loopVars, batch, taskVars, undefined>>

(* Mutant: await_resume() disables the events whatever the result was.      *)
AwaitResumeDisables(t) ==
    /\ Current(t) \in handed
    /\ handed' = handed \ {Current(t)}
    /\ waiting' = [waiting EXCEPT ![t] = NoOp]
    /\ interest' = [fd \in DOMAIN interest |->
                      IF fd = waiting[t].fd THEN Registration({}, Null, FALSE) ELSE interest[fd]]
    /\ UNCHANGED <<socket, now, timer, shutdown_fd, loopVars, runVars, ops, lost, undefined>>

(* A worker resumes the coroutine; the task goes on with the descriptor:    *)
(* what it reads or fills may be all there was.  dispatch() yields no       *)
(* timed_out, the one result for which await_resume() disables the events.  *)
AwaitResume(t) ==
    /\ Current(t) \in handed
    /\ handed' = handed \ {Current(t)}
    /\ waiting' = [waiting EXCEPT ![t] = NoOp]
    /\ \E left \in {{}, {"data"}, {"space"}, {"data", "space"}} :
         socket' = [socket EXCEPT ![waiting[t].fd] = @ \cap (left \cup {"end", "reset"})]
    /\ UNCHANGED <<interest, now, timer, shutdown_fd, loopVars, runVars, ops, lost, undefined>>

(* shutdown(): the flag, then the event.                                    *)
ShutdownStops ==
    /\ running
    /\ running' = FALSE
    /\ UNCHANGED <<kernelVars, timeout_list, arming, runVars, taskVars, undefined>>

ShutdownWakes ==
    /\ ~running /\ ~shutdown_fd
    /\ shutdown_fd' = TRUE
    /\ UNCHANGED <<interest, socket, now, timer, loopVars, runVars, taskVars, undefined>>

-----------------------------------------------------------------------------
Run == Check \/ EpollWait \/ BatchEnds \/ \E data \in batch : Yield(data)

Next ==
    /\ undefined = "none"
    /\ \/ Run
       \/ Tick \/ ShutdownStops \/ ShutdownWakes
       \/ \E fd \in Fds : register_handle(fd) \/ deregister_handle(fd)
       \/ \E fd \in Fds : \E what \in Peers[fd] : Peer(fd, what)
       \/ \E a \in arming : ArmTimeout(a[1], a[2])
       \/ \E t \in Tasks :
            \/ AwaitResume(t)
            \/ \E o \in Ops[t] :
                 \/ AwaitReady(t, o.fd, o.op)
                 \/ AwaitThrows(t, o.fd, o.op)
                 \/ AwaitSuspend(t, o.fd, o.op, o.timeout)

(* The thread in run() and the workers of the pool keep running.            *)
Fairness ==
    /\ WF_vars(undefined = "none" /\ Run)
    /\ \A t \in Tasks : WF_vars(undefined = "none" /\ AwaitResume(t))

Spec == Init /\ [][Next]_vars /\ Fairness

-----------------------------------------------------------------------------
(* run() resumes a coroutine only while it is suspended in its operation,   *)
(* and once.  What goes wrong otherwise has one of four causes: await_ready *)
(* found bytes, a timeout was asked for, the loop was shut down while it    *)
(* waited, or a connection was reset that no operation was registered for.  *)
ResumesSuspended ==
    /\ undefined \in {"none", "await_resume", "timer_fd", "shutdown_fd", "null"}
    /\ undefined = "timer_fd" => timeout_list # {}
    /\ undefined = "shutdown_fd" => ~running
    /\ undefined = "null" => \E fd \in Fds : "reset" \in socket[fd]

(* The coroutine of a task that waits is where the loop can find it: in the *)
(* registration of its descriptor with the events it asked for, among the   *)
(* events to yield, or with the pool, unless another operation on the same  *)
(* descriptor, or deregister_handle(), took the registration away.          *)
WaitersReachable ==
    \A t \in Tasks : waiting[t] # NoOp =>
        \/ Current(t) \in handed \cup batch \cup lost
        \/ LET fd == waiting[t].fd
           IN  /\ fd \in DOMAIN interest
               /\ interest[fd].data = Current(t)
               /\ convert_poll_op(waiting[t].op) \subseteq interest[fd].events

Due(t) ==
    /\ waiting[t] # NoOp /\ Current(t) \notin lost
    /\ (convert_poll_op(waiting[t].op) \cup {"RDHUP"}) \cap Events(waiting[t].fd) # {}

(* A task that waits for what has happened at its descriptor is resumed,    *)
(* unless the descriptor is taken from it, or the loop stops.               *)
DueTasksResume ==
    \A t \in Tasks : Due(t) ~> (~Due(t) \/ undefined # "none" \/ ~running)

-----------------------------------------------------------------------------
(* What ResumesSuspended and WaitersReachable rest on.                      *)

Frames == Tasks \X (Nat \ {0})
Masks == {"IN", "OUT", "RDHUP", "HUP", "ERR"}
Registrations == [events : SUBSET Masks, data : Frames \cup {Null}, oneshot : BOOLEAN]

TypeOK ==
    /\ DOMAIN interest \subseteq Fds /\ interest \in [DOMAIN interest -> Registrations]
    /\ socket \in [Fds -> SUBSET Conditions]
    /\ ops \in [Tasks -> Nat]
    /\ waiting \in [Tasks -> [fd : Fds, op : {"read", "write", "read_write"}] \cup {NoOp}]
    /\ batch \subseteq Frames \cup {Null, TimerData, ShutdownData}
    /\ handed \subseteq Frames

(* An event stands for the coroutine that waits for it, and for no other:   *)
(* in a registration that has not been reported and among the events to     *)
(* yield it is suspended, in the pool it waits to be resumed.  What else    *)
(* may be reported has a cause that stays.                                  *)
EventsKept ==
    /\ pc # "yield" => batch = {}
    /\ \A t \in Tasks : waiting[t] # NoOp => ops[t] > 0
    /\ \A fd \in DOMAIN interest :
         /\ interest[fd].data = Null => interest[fd].events \subseteq {"HUP", "ERR"} /\ ~interest[fd].oneshot
         /\ interest[fd].data # Null /\ interest[fd].events # {} =>
              /\ interest[fd].oneshot /\ interest[fd].data \notin batch
              /\ \E t \in Tasks : interest[fd].data = Current(t) /\ waiting[t] # NoOp /\ waiting[t].fd = fd
                                 /\ Current(t) \notin handed
    /\ \A d \in batch \cap Frames : Suspended(d)
    /\ \A h \in handed : \E t \in Tasks : h = Current(t) /\ waiting[t] # NoOp
    /\ (timer # -1 \/ TimerData \in batch) => timeout_list # {}
    /\ (shutdown_fd = TRUE \/ ShutdownData \in batch) => ~running
    /\ Null \in batch => \E fd \in Fds : "reset" \in socket[fd]

LoopInv == TypeOK /\ EventsKept /\ ResumesSuspended
=============================================================================
