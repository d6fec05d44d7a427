--------------------------- MODULE EpollLoopProofs ---------------------------
(***************************************************************************)
(* Proofs about io::epoll_loop, for any number of tasks and descriptors.   *)
(***************************************************************************)
EXTENDS EpollLoop, TLAPS

\* The addresses of coroutines are not null, nor what the loop's own descriptors
\* were registered with, and those of two tasks are different.
LEMMA Addresses ==
    /\ Null \notin Frames /\ TimerData \notin Frames /\ ShutdownData \notin Frames
    /\ Null # TimerData /\ Null # ShutdownData /\ TimerData # ShutdownData
    /\ \A t, u \in Tasks : Current(t) = Current(u) => t = u
    /\ \A t, u \in Tasks : Current(t)' = Current(u) => t = u
  BY DEF Frames, Null, TimerData, ShutdownData, Current

\* A task that waits is at the address of a coroutine.
LEMMA WaitersFrames ==
    ASSUME TypeOK, EventsKept, NEW t \in Tasks, waiting[t] # NoOp
    PROVE  Current(t) \in Frames
  BY DEF TypeOK, EventsKept, Current, Frames

\* What a registration with events loses is the coroutine of its operation.
LEMMA RegisteredFrame ==
    ASSUME TypeOK, NEW fd \in DOMAIN interest, interest[fd].events # {}, interest[fd].data \in Frames
    PROVE  Registered(fd) = {interest[fd].data}
  BY Addresses DEF Registered

\* register_handle() adds a registration without a coroutine and keeps the others.
LEMMA RegisterKeeps ==
    ASSUME LoopInv, NEW fd \in Fds, register_handle(fd)
    PROVE  LoopInv'
<1>1. /\ DOMAIN interest' = DOMAIN interest \cup {fd}
      /\ \A f \in DOMAIN interest : interest'[f] = interest[f]
      /\ fd \notin DOMAIN interest => interest'[fd] = [events |-> {"HUP", "ERR"}, data |-> Null, oneshot |-> FALSE]
      /\ interest' \in [DOMAIN interest' -> Registrations]
  BY DEF LoopInv, TypeOK, register_handle, Registration, Registrations, Masks
<1>2. UNCHANGED <<socket, timer, shutdown_fd, running, timeout_list, pc, batch, handed, ops, waiting, undefined>>
  BY DEF register_handle, loopVars, runVars, taskVars
<1>3. TypeOK'
  BY <1>1, <1>2 DEF LoopInv, TypeOK
<1>4. ResumesSuspended'
  BY <1>2 DEF LoopInv, ResumesSuspended
<1>5. EventsKept'
  BY <1>1, <1>2 DEF LoopInv, EventsKept, Current, Suspended
<1> QED BY <1>3, <1>4, <1>5 DEF LoopInv

\* deregister_handle() only takes a registration away.
LEMMA DeregisterKeeps ==
    ASSUME LoopInv, NEW fd \in Fds, deregister_handle(fd)
    PROVE  LoopInv'
<1>1. /\ DOMAIN interest' = DOMAIN interest \ {fd}
      /\ \A f \in DOMAIN interest' : interest'[f] = interest[f]
      /\ interest' \in [DOMAIN interest' -> Registrations]
  BY DEF LoopInv, TypeOK, deregister_handle
<1>2. UNCHANGED <<socket, timer, shutdown_fd, running, timeout_list, pc, batch, handed, ops, waiting, undefined>>
  BY DEF deregister_handle, loopVars, runVars
<1>3. TypeOK'
  BY <1>1, <1>2 DEF LoopInv, TypeOK
<1>4. ResumesSuspended'
  BY <1>2 DEF LoopInv, ResumesSuspended
<1>5. EventsKept'
  BY <1>1, <1>2 DEF LoopInv, EventsKept, Current, Suspended
<1> QED BY <1>3, <1>4, <1>5 DEF LoopInv

\* The new coroutine is known to nobody; the registration it takes is the only
\* one that refers to it.
LEMMA AwaitSuspendKeeps ==
    ASSUME LoopInv, NEW t \in Tasks, NEW fd \in Fds, NEW op \in {"read", "write", "read_write"},
           NEW timeout \in Nat, AwaitSuspend(t, fd, op, timeout)
    PROVE  LoopInv'
<1> DEFINE new == <<t, ops[t] + 1>>
<1>1. /\ fd \in DOMAIN interest /\ waiting[t] = NoOp
      /\ ops' = [ops EXCEPT ![t] = ops[t] + 1]
      /\ waiting' = [waiting EXCEPT ![t] = [fd |-> fd, op |-> op]]
      /\ UNCHANGED <<socket, timer, shutdown_fd, running, timeout_list, pc, batch, handed, undefined>>
  BY DEF AwaitSuspend, Idle, runVars
<1>2. /\ ops[t] \in Nat /\ ops'[t] = ops[t] + 1 /\ ops' \in [Tasks -> Nat]
      /\ \A u \in Tasks \ {t} : ops'[u] = ops[u] /\ waiting'[u] = waiting[u]
      /\ waiting'[t] = [fd |-> fd, op |-> op] /\ waiting'[t] # NoOp
  BY <1>1 DEF LoopInv, TypeOK, NoOp
<1>3. /\ Current(t)' = new /\ new \in Frames
      /\ \A u \in Tasks \ {t} : Current(u)' = Current(u)
  BY <1>2 DEF Current, Frames
<1>4. /\ DOMAIN interest' = DOMAIN interest
      /\ \A f \in DOMAIN interest \ {fd} : interest'[f] = interest[f]
      /\ interest'[fd] = Registration(convert_poll_op(op) \cup {"RDHUP"}, new, TRUE)
  BY <1>1, <1>3 DEF AwaitSuspend, LoopInv, TypeOK
<1>5. /\ interest'[fd] \in Registrations /\ interest'[fd].oneshot /\ interest'[fd].data = new
  BY <1>3, <1>4 DEF Registration, Registrations, Masks, convert_poll_op, is_readable, is_writable
<1>6. TypeOK'
  <2>1. interest' \in [DOMAIN interest' -> Registrations]
    BY ZenonT(60), <1>4, <1>5 DEF AwaitSuspend, LoopInv, TypeOK
  <2>2. waiting' \in [Tasks -> [fd : Fds, op : {"read", "write", "read_write"}] \cup {NoOp}]
    BY <1>1 DEF LoopInv, TypeOK
  <2> QED BY <1>1, <1>2, <1>4, <2>1, <2>2 DEF LoopInv, TypeOK
<1>7. ResumesSuspended'
  BY <1>1 DEF LoopInv, ResumesSuspended
<1>8. new \notin handed /\ new \notin batch
  <2>1. \A u \in Tasks : new = Current(u) => FALSE
    BY <1>2 DEF Current
  <2> QED BY <1>3, <2>1 DEF LoopInv, EventsKept, Suspended
<1>9. EventsKept'
  <2>1. \A f \in DOMAIN interest' :
          /\ interest'[f].data = Null => interest'[f].events \subseteq {"HUP", "ERR"} /\ ~interest'[f].oneshot
          /\ interest'[f].data # Null /\ interest'[f].events # {} =>
               /\ interest'[f].oneshot /\ interest'[f].data \notin batch'
               /\ \E u \in Tasks : /\ interest'[f].data = Current(u)' /\ waiting'[u] # NoOp
                                   /\ waiting'[u].fd = f /\ Current(u)' \notin handed'
    <3> SUFFICES ASSUME NEW f \in DOMAIN interest'
                 PROVE  /\ interest'[f].data = Null => interest'[f].events \subseteq {"HUP", "ERR"} /\ ~interest'[f].oneshot
                        /\ interest'[f].data # Null /\ interest'[f].events # {} =>
                             /\ interest'[f].oneshot /\ interest'[f].data \notin batch'
                             /\ \E u \in Tasks : /\ interest'[f].data = Current(u)' /\ waiting'[u] # NoOp
                                                 /\ waiting'[u].fd = f /\ Current(u)' \notin handed'
      OBVIOUS
    <3>1. CASE f = fd
      BY <1>1, <1>2, <1>3, <1>5, <1>8, <3>1, Addresses
    <3>2. CASE f # fd
      BY <1>1, <1>2, <1>3, <1>4, <3>2 DEF LoopInv, EventsKept
    <3> QED BY <3>1, <3>2
  <2>2. \A d \in batch' \cap Frames : Suspended(d)'
    BY <1>1, <1>2, <1>3 DEF LoopInv, EventsKept, Suspended
  <2>3. \A h \in handed' : \E u \in Tasks : h = Current(u)' /\ waiting'[u] # NoOp
    BY <1>1, <1>2, <1>3 DEF LoopInv, EventsKept
  <2>4. \A u \in Tasks : waiting'[u] # NoOp => ops'[u] > 0
    BY <1>2 DEF LoopInv, EventsKept
  <2> QED BY <1>1, <2>1, <2>2, <2>3, <2>4 DEF LoopInv, EventsKept
<1> QED BY <1>6, <1>7, <1>9 DEF LoopInv

\* An operation whose epoll_ctl() throws leaves nothing behind.
LEMMA AwaitThrowsKeeps ==
    ASSUME LoopInv, NEW t \in Tasks, NEW fd, NEW op, AwaitThrows(t, fd, op)
    PROVE  LoopInv'
<1>1. /\ waiting[t] = NoOp /\ ops' = [ops EXCEPT ![t] = ops[t] + 1]
      /\ UNCHANGED <<interest, socket, timer, shutdown_fd, running, timeout_list, pc, batch, handed, waiting, undefined>>
  BY DEF AwaitThrows, Idle, kernelVars, loopVars, runVars
<1>2. /\ ops' \in [Tasks -> Nat] /\ \A u \in Tasks \ {t} : ops'[u] = ops[u] /\ Current(u)' = Current(u)
  BY <1>1 DEF LoopInv, TypeOK, Current
<1>3. TypeOK'
  BY <1>1, <1>2 DEF LoopInv, TypeOK
<1>4. ResumesSuspended'
  BY <1>1 DEF LoopInv, ResumesSuspended
<1>5. EventsKept'
  BY <1>1, <1>2 DEF LoopInv, EventsKept, Suspended
<1> QED BY <1>3, <1>4, <1>5 DEF LoopInv

\* A coroutine leaves the pool only when it is resumed; what is kept of the
\* socket includes a reset.
LEMMA AwaitResumeKeeps ==
    ASSUME LoopInv, NEW t \in Tasks, AwaitResume(t)
    PROVE  LoopInv'
<1>1. /\ Current(t) \in handed /\ handed' = handed \ {Current(t)}
      /\ waiting' = [waiting EXCEPT ![t] = NoOp]
      /\ UNCHANGED <<interest, timer, shutdown_fd, running, timeout_list, pc, batch, ops, undefined>>
  BY DEF AwaitResume, loopVars, runVars
<1>2. waiting[t] # NoOp
  BY <1>1, Addresses DEF LoopInv, EventsKept
<1>3. /\ waiting'[t] = NoOp /\ \A u \in Tasks \ {t} : waiting'[u] = waiting[u]
      /\ \A u \in Tasks : Current(u)' = Current(u)
      /\ \A u \in Tasks \ {t} : Current(u) # Current(t)
  BY <1>1, Addresses DEF LoopInv, TypeOK, Current
<1>4. /\ socket' \in [Fds -> SUBSET Conditions]
      /\ \A fd \in Fds : "reset" \in socket[fd] => "reset" \in socket'[fd]
  <2>1. waiting[t].fd \in Fds
    BY <1>2 DEF LoopInv, TypeOK
  <2> QED BY <2>1 DEF AwaitResume, LoopInv, TypeOK
<1>5. TypeOK'
  BY <1>1, <1>4 DEF LoopInv, TypeOK
<1>6. ResumesSuspended'
  BY <1>1, <1>4 DEF LoopInv, ResumesSuspended
<1>7. EventsKept'
  <2>1. \A d \in batch' \cap Frames : Suspended(d)'
    BY <1>1, <1>3 DEF LoopInv, EventsKept, Suspended
  <2>2. \A h \in handed' : \E u \in Tasks : h = Current(u)' /\ waiting'[u] # NoOp
    BY <1>1, <1>3 DEF LoopInv, EventsKept
  <2>3. \A u \in Tasks : waiting'[u] # NoOp => ops'[u] > 0
    BY <1>1, <1>3 DEF LoopInv, EventsKept
  <2>4. \A f \in DOMAIN interest, u \in Tasks :
          /\ interest[f].data = Current(u) /\ waiting[u] # NoOp /\ waiting[u].fd = f /\ Current(u) \notin handed
          => /\ interest[f].data = Current(u)' /\ waiting'[u] # NoOp /\ waiting'[u].fd = f
             /\ Current(u)' \notin handed'
    BY <1>1, <1>3
  <2> QED BY <1>1, <1>4, <2>1, <2>2, <2>3, <2>4 DEF LoopInv, EventsKept
<1> QED BY <1>5, <1>6, <1>7 DEF LoopInv

\* The peers add to what has happened at a descriptor.
LEMMA PeerKeeps ==
    ASSUME LoopInv, NEW fd \in Fds, NEW what \in Peers[fd], Peer(fd, what)
    PROVE  LoopInv'
<1>1. /\ UNCHANGED <<interest, timer, shutdown_fd, running, timeout_list, pc, batch, handed, ops, waiting, undefined>>
      /\ \A u \in Tasks : Current(u)' = Current(u)
  BY DEF Peer, loopVars, runVars, taskVars, Current
<1>2. /\ socket' \in [Fds -> SUBSET Conditions]
      /\ \A f \in Fds : "reset" \in socket[f] => "reset" \in socket'[f]
  BY EpollAssumption DEF Peer, LoopInv, TypeOK
<1>3. TypeOK'
  BY <1>1, <1>2 DEF LoopInv, TypeOK
<1>4. ResumesSuspended'
  BY <1>1, <1>2 DEF LoopInv, ResumesSuspended
<1>5. EventsKept'
  BY <1>1, <1>2 DEF LoopInv, EventsKept, Suspended
<1> QED BY <1>3, <1>4, <1>5 DEF LoopInv

\* The steps that touch neither a registration nor a coroutine: the clock, a
\* bad await_resume(), the flags, the timeout list and the loop between batches.
LEMMA QuietKeeps ==
    ASSUME LoopInv,
           UNCHANGED <<interest, socket, batch, handed, ops, waiting>>,
           pc' # "yield" => batch = {},
           undefined' \in {undefined, "await_resume"},
           running' => running,
           timeout_list \subseteq timeout_list',
           timer' # -1 => timer # -1 \/ timeout_list' # {},
           shutdown_fd' = TRUE => shutdown_fd = TRUE \/ ~running'
    PROVE  LoopInv'
<1>1. \A u \in Tasks : Current(u)' = Current(u)
  BY DEF Current
<1>2. TypeOK'
  BY DEF LoopInv, TypeOK
<1>3. ResumesSuspended'
  BY DEF LoopInv, ResumesSuspended
<1>4. EventsKept'
  <2>1. \A d : Suspended(d) => Suspended(d)'
    BY <1>1 DEF Suspended
  <2> QED BY <1>1, <2>1 DEF LoopInv, EventsKept
<1> QED BY <1>2, <1>3, <1>4 DEF LoopInv

\* A coroutine that is yielded was suspended, and passes to the pool; the rest
\* of what is yielded is undefined for the cause recorded.
LEMMA YieldKeeps ==
    ASSUME LoopInv, undefined = "none", NEW data \in batch, Yield(data)
    PROVE  LoopInv'
<1>1. /\ pc = "yield" /\ batch' = batch \ {data}
      /\ UNCHANGED <<interest, socket, timer, shutdown_fd, running, timeout_list, pc, ops, waiting>>
      /\ \A u \in Tasks : Current(u)' = Current(u)
  BY Zenon DEF Yield, kernelVars, loopVars, Current
<1>2. CASE data \in Frames
  <2>1. Suspended(data) /\ handed' = handed \cup {data} /\ undefined' = undefined
    <3>1. Suspended(data)
      BY <1>2 DEF LoopInv, EventsKept
    <3>2. data \notin {Null, TimerData, ShutdownData}
      BY <1>2, Addresses
    <3> QED BY ZenonT(60), <3>1, <3>2 DEF Yield, Suspended
  <2>2. PICK t \in Tasks : data = Current(t) /\ waiting[t] # NoOp /\ data \notin handed
    BY <2>1 DEF Suspended
  <2>3. TypeOK'
    BY <1>1, <1>2, <2>1 DEF LoopInv, TypeOK
  <2>4. ResumesSuspended'
    BY <1>1, <2>1 DEF LoopInv, ResumesSuspended
  <2>5. \A d \in batch' \cap Frames : Suspended(d)'
    BY <1>1, <2>1 DEF LoopInv, EventsKept, Suspended
  <2>6. \A h \in handed' : \E u \in Tasks : h = Current(u)' /\ waiting'[u] # NoOp
    BY <1>1, <2>1, <2>2 DEF LoopInv, EventsKept
  <2>7. \A f \in DOMAIN interest : interest[f].data # Null /\ interest[f].events # {} =>
          /\ interest[f].oneshot /\ interest[f].data \notin batch'
          /\ \E u \in Tasks : /\ interest[f].data = Current(u)' /\ waiting[u] # NoOp
                              /\ waiting[u].fd = f /\ Current(u)' \notin handed'
    BY SMTT(60), <1>1, <2>1 DEF LoopInv, EventsKept
  <2>8. EventsKept'
    BY <1>1, <2>1, <2>5, <2>6, <2>7 DEF LoopInv, EventsKept
  <2> QED BY <2>3, <2>4, <2>8 DEF LoopInv
<1>3. CASE data \notin Frames
  <2>1. data \in {Null, TimerData, ShutdownData}
    BY <1>3 DEF LoopInv, TypeOK
  <2>2. ~Suspended(data)
    BY <1>3, WaitersFrames DEF Suspended, LoopInv
  <2>3. handed' = handed /\ undefined' = data[1]
    BY <2>1, <2>2 DEF Yield
  <2>4. TypeOK'
    BY <1>1, <2>3 DEF LoopInv, TypeOK
  <2>5. ResumesSuspended'
    BY <1>1, <2>1, <2>3 DEF LoopInv, EventsKept, ResumesSuspended, Null, TimerData, ShutdownData
  <2>6. \A d : Suspended(d) => Suspended(d)'
    BY SMTT(60), <1>1, <2>3 DEF Suspended
  <2>7. EventsKept'
    BY <1>1, <2>3, <2>6 DEF LoopInv, EventsKept
  <2> QED BY <2>4, <2>5, <2>7 DEF LoopInv
<1> QED BY <1>2, <1>3

\* Where the data of the events of epoll_wait() come from: the loop's own
\* descriptors, each with its cause, or registrations that were reported.
LEMMA EventsFrom ==
    ASSUME LoopInv, NEW events \in SUBSET Sources, NEW s \in events
    PROVE  \/ DataOf(s) = TimerData /\ timer # -1
           \/ DataOf(s) = ShutdownData /\ shutdown_fd = TRUE
           \/ \E fd \in DOMAIN interest :
                /\ s = <<"socket", fd>> /\ DataOf(s) = interest[fd].data
                /\ interest[fd].events \cap Events(fd) # {}
<1>1. CASE s = <<"timer", 0>>
  BY <1>1 DEF Sources, DataOf
<1>2. CASE s = <<"shutdown", 0>>
  BY <1>2 DEF Sources, DataOf
<1>3. CASE \E fd \in Fds : s = <<"socket", fd>> /\ Reported(fd)
  BY <1>3 DEF DataOf, Reported
<1> QED BY Zenon, <1>1, <1>2, <1>3 DEF Sources

\* A reported registration is silenced as its coroutine enters the batch; one
\* without a coroutine is reported only after a reset.
LEMMA EpollWaitKeeps ==
    ASSUME LoopInv, EpollWait
    PROVE  LoopInv'
<1>1. /\ batch = {} /\ pc' = "yield"
      /\ UNCHANGED <<socket, timer, shutdown_fd, running, timeout_list, handed, ops, waiting, undefined>>
      /\ \A u \in Tasks : Current(u)' = Current(u)
  BY DEF EpollWait, LoopInv, EventsKept, loopVars, taskVars, Current
<1>2. PICK events \in SUBSET Sources :
        /\ batch' = {DataOf(s) : s \in events}
        /\ interest' = [fd \in DOMAIN interest |->
                          IF <<"socket", fd>> \in events /\ interest[fd].oneshot
                          THEN Silent(interest[fd]) ELSE interest[fd]]
  BY DEF EpollWait
<1>3. \A d \in batch' :
        \/ d = TimerData /\ timer # -1
        \/ d = ShutdownData /\ shutdown_fd = TRUE
        \/ \E fd \in DOMAIN interest : /\ <<"socket", fd>> \in events /\ d = interest[fd].data
                                       /\ interest[fd].events \cap Events(fd) # {}
  BY Zenon, <1>2, EventsFrom
<1>4. /\ DOMAIN interest' = DOMAIN interest
      /\ \A fd \in DOMAIN interest :
           /\ interest'[fd] \in Registrations
           /\ interest'[fd].data = interest[fd].data /\ interest'[fd].oneshot = interest[fd].oneshot
           /\ interest'[fd].events \in {interest[fd].events, {}}
           /\ <<"socket", fd>> \in events /\ interest[fd].oneshot => interest'[fd].events = {}
  BY <1>2 DEF LoopInv, TypeOK, Registrations, Silent
<1>5. TypeOK'
  <2>1. interest' \in [DOMAIN interest' -> Registrations]
    BY <1>2, <1>4
  <2>2. batch' \subseteq Frames \cup {Null, TimerData, ShutdownData}
    BY ZenonT(60), <1>3 DEF LoopInv, TypeOK, Registrations
  <2> QED BY <1>1, <1>4, <2>1, <2>2 DEF LoopInv, TypeOK
<1>6. ResumesSuspended'
  BY <1>1 DEF LoopInv, ResumesSuspended
<1>7. \A fd \in DOMAIN interest : interest[fd].data # Null /\ interest[fd].events # {} =>
        \E u \in Tasks : /\ interest[fd].data = Current(u) /\ waiting[u] # NoOp
                         /\ waiting[u].fd = fd /\ Current(u) \notin handed
  BY DEF LoopInv, EventsKept
<1>8. \A d \in batch' \cap Frames : Suspended(d)'
  <2> SUFFICES ASSUME NEW d \in batch', d \in Frames PROVE Suspended(d)'
    OBVIOUS
  <2>1. PICK fd \in DOMAIN interest : d = interest[fd].data /\ interest[fd].events # {}
    BY ZenonT(60), <1>3, Addresses
  <2> QED BY <1>1, <1>7, <2>1, Addresses DEF Suspended
<1>9. \A fd \in DOMAIN interest : interest[fd].data # Null /\ interest'[fd].events # {} =>
        interest[fd].data \notin batch'
  <2> SUFFICES ASSUME NEW fd \in DOMAIN interest, interest[fd].data # Null, interest'[fd].events # {},
                      interest[fd].data \in batch'
               PROVE  FALSE
    OBVIOUS
  <2>1. interest[fd].events # {} /\ interest[fd].data \in Frames /\ interest[fd].oneshot
    BY Zenon, <1>4 DEF LoopInv, TypeOK, EventsKept, Registrations
  <2>2. PICK f \in DOMAIN interest : /\ <<"socket", f>> \in events /\ interest[fd].data = interest[f].data
                                     /\ interest[f].events # {}
    BY <1>3, <2>1, Addresses
  <2>3. f = fd
    <3>1. PICK u \in Tasks : interest[fd].data = Current(u) /\ waiting[u].fd = fd
      BY <1>7, <2>1
    <3>2. PICK v \in Tasks : interest[f].data = Current(v) /\ waiting[v].fd = f
      BY <1>7, <2>2
    <3> QED BY ZenonT(60), <2>2, <3>1, <3>2, Addresses
  <2> QED BY <1>4, <2>1, <2>2, <2>3
<1>10. Null \in batch' => \E fd \in Fds : "reset" \in socket[fd]
  <2> SUFFICES ASSUME Null \in batch' PROVE \E fd \in Fds : "reset" \in socket[fd]
    OBVIOUS
  <2>1. PICK fd \in DOMAIN interest : interest[fd].data = Null /\ interest[fd].events \cap Events(fd) # {}
    BY Zenon, <1>3, Addresses
  <2>2. interest[fd].events \subseteq {"HUP", "ERR"} /\ fd \in Fds
    BY <2>1 DEF LoopInv, EventsKept, TypeOK
  <2> QED BY <2>1, <2>2 DEF Events
<1>11. EventsKept'
  <2>1. /\ TimerData \in batch' => timeout_list # {}
        /\ ShutdownData \in batch' => ~running
    <3>1. \A fd \in DOMAIN interest : interest[fd].data \in Frames \cup {Null}
      BY DEF LoopInv, TypeOK, Registrations
    <3>2. /\ TimerData \in batch' => timer # -1
          /\ ShutdownData \in batch' => shutdown_fd = TRUE
      BY ZenonT(60), <1>3, <3>1, Addresses
    <3> QED BY <3>2 DEF LoopInv, EventsKept
  <2>2. \A fd \in DOMAIN interest' :
          /\ interest'[fd].data = Null => interest'[fd].events \subseteq {"HUP", "ERR"} /\ ~interest'[fd].oneshot
          /\ interest'[fd].data # Null /\ interest'[fd].events # {} =>
               /\ interest'[fd].oneshot /\ interest'[fd].data \notin batch'
               /\ \E u \in Tasks : /\ interest'[fd].data = Current(u)' /\ waiting'[u] # NoOp
                                   /\ waiting'[u].fd = fd /\ Current(u)' \notin handed'
    <3>1. \A fd \in DOMAIN interest :
            /\ interest[fd].data = Null => interest[fd].events \subseteq {"HUP", "ERR"} /\ ~interest[fd].oneshot
            /\ interest[fd].data # Null /\ interest[fd].events # {} => interest[fd].oneshot
      BY DEF LoopInv, EventsKept
    <3>2. \A fd \in DOMAIN interest : interest'[fd].events # {} => interest'[fd].events = interest[fd].events
      BY ZenonT(60), <1>4
    <3> SUFFICES ASSUME NEW fd \in DOMAIN interest
                 PROVE  /\ interest'[fd].data = Null => interest'[fd].events \subseteq {"HUP", "ERR"} /\ ~interest'[fd].oneshot
                        /\ interest'[fd].data # Null /\ interest'[fd].events # {} =>
                             /\ interest'[fd].oneshot /\ interest'[fd].data \notin batch'
                             /\ \E u \in Tasks : /\ interest'[fd].data = Current(u)' /\ waiting'[u] # NoOp
                                                 /\ waiting'[u].fd = fd /\ Current(u)' \notin handed'
      BY <1>4
    <3>3. interest'[fd].data = interest[fd].data /\ interest'[fd].oneshot = interest[fd].oneshot
      BY Zenon, <1>4
    <3>4. interest'[fd].data = Null => interest'[fd].events \subseteq {"HUP", "ERR"} /\ ~interest'[fd].oneshot
      BY ZenonT(60), <3>1, <3>2, <3>3
    <3>5. ASSUME interest[fd].data # Null, interest'[fd].events # {}
          PROVE  /\ interest[fd].oneshot /\ interest[fd].data \notin batch'
                 /\ \E u \in Tasks : /\ interest[fd].data = Current(u)' /\ waiting'[u] # NoOp
                                     /\ waiting'[u].fd = fd /\ Current(u)' \notin handed'
      BY <1>1, <1>7, <1>9, <3>1, <3>2, <3>5
    <3> QED BY <3>3, <3>4, <3>5
  <2> QED BY <1>1, <1>8, <1>10, <2>1, <2>2 DEF LoopInv, EventsKept
<1> QED BY <1>5, <1>6, <1>11 DEF LoopInv

\* The invariant is inductive: one step per action.
LEMMA NextKeeps ==
    ASSUME LoopInv, [Next]_vars
    PROVE  LoopInv'
<1>1. CASE UNCHANGED vars
  BY ZenonT(60), <1>1, QuietKeeps DEF vars, kernelVars, loopVars, runVars, taskVars, LoopInv, EventsKept
<1>2. CASE undefined = "none" /\ Check
  BY Zenon, <1>2, QuietKeeps DEF Check, kernelVars, loopVars, taskVars, LoopInv, EventsKept
<1>3. CASE undefined = "none" /\ EpollWait
  BY <1>3, EpollWaitKeeps
<1>4. CASE undefined = "none" /\ BatchEnds
  BY Zenon, <1>4, QuietKeeps DEF BatchEnds, kernelVars, loopVars, taskVars
<1>5. CASE undefined = "none" /\ \E data \in batch : Yield(data)
  BY <1>5, YieldKeeps
<1>6. CASE Tick
  BY ZenonT(60), <1>6, QuietKeeps DEF Tick, loopVars, runVars, taskVars, LoopInv, EventsKept
<1>7. CASE ShutdownStops
  BY Zenon, <1>7, QuietKeeps DEF ShutdownStops, kernelVars, runVars, taskVars, LoopInv, EventsKept
<1>8. CASE ShutdownWakes
  BY Zenon, <1>8, QuietKeeps DEF ShutdownWakes, loopVars, runVars, taskVars, LoopInv, EventsKept
<1>9. CASE \E fd \in Fds : register_handle(fd) \/ deregister_handle(fd)
  BY <1>9, RegisterKeeps, DeregisterKeeps
<1>10. CASE \E fd \in Fds : \E what \in Peers[fd] : Peer(fd, what)
  BY <1>10, PeerKeeps
<1>11. CASE \E a \in arming : ArmTimeout(a[1], a[2])
  <2>1. PICK a \in arming : ArmTimeout(a[1], a[2])
    BY <1>11
  <2>2. timeout_list \subseteq timeout_list' /\ timeout_list' # {}
    BY Zenon, <2>1 DEF ArmTimeout
  <2>3. UNCHANGED <<interest, socket, batch, handed, ops, waiting, pc, undefined, running, shutdown_fd>>
    BY <2>1 DEF ArmTimeout, runVars, taskVars
  <2> QED BY Zenon, <2>2, <2>3, QuietKeeps DEF LoopInv, EventsKept
<1>12. CASE \E t \in Tasks : AwaitResume(t)
  BY <1>12, AwaitResumeKeeps
<1>13. CASE \E t \in Tasks : \E o \in Ops[t] : AwaitReady(t, o.fd, o.op)
  <2>1. /\ UNCHANGED <<interest, socket, timer, shutdown_fd, running, timeout_list, pc, batch, handed, ops, waiting>>
        /\ undefined' = "await_resume"
    BY <1>13 DEF AwaitReady, kernelVars, loopVars, runVars, taskVars
  <2>2. pc' # "yield" => batch = {}
    BY <2>1 DEF LoopInv, EventsKept
  <2> QED BY ZenonT(60), <2>1, <2>2, QuietKeeps
<1>14. CASE \E t \in Tasks : \E o \in Ops[t] : AwaitThrows(t, o.fd, o.op)
  BY <1>14, AwaitThrowsKeeps
<1>15. CASE \E t \in Tasks : \E o \in Ops[t] : AwaitSuspend(t, o.fd, o.op, o.timeout)
  <2>1. \A t \in Tasks : \A o \in Ops[t] :
          o.fd \in Fds /\ o.op \in {"read", "write", "read_write"} /\ o.timeout \in Nat
    BY EpollAssumption
  <2> QED BY <1>15, <2>1, AwaitSuspendKeeps
<1> QED BY SMTT(60), <1>1, <1>2, <1>3, <1>4, <1>5, <1>6, <1>7, <1>8, <1>9, <1>10, <1>11, <1>12, <1>13, <1>14, <1>15
        DEF Next, Run

\* Nothing is registered, reported or suspended when the loop is constructed.
LEMMA InitHolds == Init => LoopInv
<1> SUFFICES ASSUME Init PROVE LoopInv
  OBVIOUS
<1>1. TypeOK
  BY DEF Init, TypeOK
<1>2. EventsKept
  BY DEF Init, EventsKept, Suspended
<1>3. ResumesSuspended
  BY DEF Init, ResumesSuspended
<1> QED BY <1>1, <1>2, <1>3 DEF LoopInv

\* For every set of tasks, descriptors and operations, run() resumes through
\* dispatch() only coroutines that are suspended, each once, except for the four
\* causes ResumesSuspended names.
THEOREM OnlySuspendedResumed == Spec => []ResumesSuspended
<1>1. LoopInv => ResumesSuspended
  BY DEF LoopInv
<1> QED BY InitHolds, NextKeeps, <1>1, PTL DEF Spec

\* What is asked of the kernel for an operation is never nothing.
LEMMA SomethingAsked ==
    \A op \in {"read", "write", "read_write"} : convert_poll_op(op) # {}
  BY SMTT(60) DEF convert_poll_op, is_readable, is_writable

\* The steps that leave the waiting tasks where they are: they neither take a
\* registration away nor forget a coroutine.
LEMMA ReachableKept ==
    ASSUME WaitersReachable, UNCHANGED <<ops, waiting>>,
           batch \subseteq batch', handed \subseteq handed', lost \subseteq lost',
           \A fd \in DOMAIN interest : fd \in DOMAIN interest' /\ interest'[fd] = interest[fd]
    PROVE  WaitersReachable'
<1> SUFFICES ASSUME NEW t \in Tasks, waiting'[t] # NoOp
             PROVE  \/ Current(t)' \in (handed \cup batch \cup lost)'
                    \/ /\ waiting'[t].fd \in DOMAIN interest'
                       /\ interest'[waiting'[t].fd].data = Current(t)'
                       /\ convert_poll_op(waiting'[t].op) \subseteq interest'[waiting'[t].fd].events
  BY DEF WaitersReachable, convert_poll_op, is_readable, is_writable
<1>1. Current(t)' = Current(t) /\ waiting'[t] = waiting[t]
  BY SMTT(60) DEF Current
<1> QED BY SMTT(60), <1>1 DEF WaitersReachable

\* The registration deregister_handle() removes is remembered as lost.
LEMMA DeregisterReachable ==
    ASSUME LoopInv, WaitersReachable, NEW fd \in Fds, deregister_handle(fd)
    PROVE  WaitersReachable'
<1>1. /\ UNCHANGED <<batch, handed, ops, waiting>> /\ lost' = lost \cup Registered(fd)
      /\ DOMAIN interest' = DOMAIN interest \ {fd}
      /\ \A f \in DOMAIN interest' : interest'[f] = interest[f]
  BY SMTT(60) DEF deregister_handle, runVars
<1> SUFFICES ASSUME NEW t \in Tasks, waiting[t] # NoOp
             PROVE  \/ Current(t) \in handed \cup batch \cup lost'
                    \/ /\ waiting[t].fd \in DOMAIN interest'
                       /\ interest'[waiting[t].fd].data = Current(t)
                       /\ convert_poll_op(waiting[t].op) \subseteq interest'[waiting[t].fd].events
  BY SMTT(60), <1>1 DEF WaitersReachable, Current, convert_poll_op, is_readable, is_writable
<1>2. CASE Current(t) \in handed \cup batch \cup lost
  BY SMTT(60), <1>1, <1>2
<1>3. CASE Current(t) \notin handed \cup batch \cup lost
  <2>1. /\ waiting[t].fd \in DOMAIN interest /\ interest[waiting[t].fd].data = Current(t)
        /\ convert_poll_op(waiting[t].op) \subseteq interest[waiting[t].fd].events
    BY <1>3 DEF WaitersReachable
  <2>2. waiting[t].op \in {"read", "write", "read_write"}
    BY DEF LoopInv, TypeOK
  <2>3. interest[waiting[t].fd].events # {}
    BY <2>1, <2>2, SomethingAsked
  <2>4. Registered(waiting[t].fd) = {Current(t)}
    BY SMTT(60), <2>1, <2>3, WaitersFrames, RegisteredFrame DEF LoopInv
  <2> QED BY SMTT(60), <1>1, <2>1, <2>4
<1> QED BY <1>2, <1>3

\* So is the registration an operation takes over on the same descriptor.
LEMMA SuspendReachable ==
    ASSUME LoopInv, WaitersReachable, NEW t \in Tasks, NEW fd \in Fds,
           NEW op \in {"read", "write", "read_write"}, NEW timeout \in Nat,
           AwaitSuspend(t, fd, op, timeout)
    PROVE  WaitersReachable'
<1>1. /\ fd \in DOMAIN interest /\ UNCHANGED <<batch, handed>> /\ lost' = lost \cup Registered(fd)
      /\ DOMAIN interest' = DOMAIN interest
      /\ \A f \in DOMAIN interest \ {fd} : interest'[f] = interest[f]
      /\ interest'[fd] = Registration(convert_poll_op(op) \cup {"RDHUP"}, Current(t)', TRUE)
  BY DEF AwaitSuspend, runVars, LoopInv, TypeOK
<1>2. /\ waiting'[t] = [fd |-> fd, op |-> op]
      /\ \A u \in Tasks \ {t} : waiting'[u] = waiting[u] /\ Current(u)' = Current(u)
  BY SMTT(60) DEF AwaitSuspend, LoopInv, TypeOK, Current
<1>3. interest'[fd].data = Current(t)' /\ convert_poll_op(op) \subseteq interest'[fd].events
  BY SMTT(60), <1>1 DEF Registration
<1>4. \A u \in Tasks \ {t} : waiting[u] # NoOp =>
        \/ Current(u) \in handed \cup batch \cup lost'
        \/ /\ waiting[u].fd \in DOMAIN interest'
           /\ interest'[waiting[u].fd].data = Current(u)
           /\ convert_poll_op(waiting[u].op) \subseteq interest'[waiting[u].fd].events
  <2> SUFFICES ASSUME NEW u \in Tasks \ {t}, waiting[u] # NoOp,
                      Current(u) \notin handed \cup batch \cup lost
               PROVE  \/ Current(u) \in lost'
                      \/ /\ waiting[u].fd \in DOMAIN interest'
                         /\ interest'[waiting[u].fd].data = Current(u)
                         /\ convert_poll_op(waiting[u].op) \subseteq interest'[waiting[u].fd].events
    BY SMTT(60), <1>1
  <2>1. /\ waiting[u].fd \in DOMAIN interest /\ interest[waiting[u].fd].data = Current(u)
        /\ convert_poll_op(waiting[u].op) \subseteq interest[waiting[u].fd].events
    BY DEF WaitersReachable
  <2>2. waiting[u].op \in {"read", "write", "read_write"}
    BY SMTT(60) DEF LoopInv, TypeOK
  <2>3. Registered(waiting[u].fd) = {Current(u)}
    BY SMTT(60), <2>1, <2>2, SomethingAsked, WaitersFrames, RegisteredFrame DEF LoopInv
  <2> QED BY SMTT(60), <1>1, <2>1, <2>3
<1> SUFFICES ASSUME NEW u \in Tasks, waiting'[u] # NoOp
             PROVE  \/ Current(u)' \in (handed \cup batch \cup lost)'
                    \/ /\ waiting'[u].fd \in DOMAIN interest'
                       /\ interest'[waiting'[u].fd].data = Current(u)'
                       /\ convert_poll_op(waiting'[u].op) \subseteq interest'[waiting'[u].fd].events
  BY SMTT(60) DEF WaitersReachable, convert_poll_op, is_readable, is_writable
<1>5. CASE u = t
  <2>1. waiting'[u].fd = fd /\ waiting'[u].op = op
    BY <1>2, <1>5
  <2> QED BY ZenonT(60), <1>1, <1>3, <1>5, <2>1
<1>6. CASE u # t
  BY <1>1, <1>2, <1>4, <1>6
<1> QED BY <1>5, <1>6

\* A reported coroutine is among the events to yield before it is silenced.
LEMMA EpollWaitReachable ==
    ASSUME LoopInv, WaitersReachable, EpollWait
    PROVE  WaitersReachable'
<1>1. /\ batch = {} /\ UNCHANGED <<handed, ops, waiting, lost>>
      /\ \A u \in Tasks : Current(u)' = Current(u)
  BY DEF EpollWait, LoopInv, EventsKept, taskVars, Current
<1>2. PICK events \in SUBSET Sources :
        /\ batch' = {DataOf(s) : s \in events}
        /\ interest' = [fd \in DOMAIN interest |->
                          IF <<"socket", fd>> \in events /\ interest[fd].oneshot
                          THEN Silent(interest[fd]) ELSE interest[fd]]
  BY SMTT(60) DEF EpollWait
<1> SUFFICES ASSUME NEW t \in Tasks, waiting[t] # NoOp, Current(t) \notin handed \cup lost
             PROVE  \/ Current(t) \in batch'
                    \/ /\ waiting[t].fd \in DOMAIN interest'
                       /\ interest'[waiting[t].fd].data = Current(t)
                       /\ convert_poll_op(waiting[t].op) \subseteq interest'[waiting[t].fd].events
  BY SMTT(60), <1>1 DEF WaitersReachable, convert_poll_op, is_readable, is_writable
<1>3. /\ waiting[t].fd \in DOMAIN interest /\ interest[waiting[t].fd].data = Current(t)
      /\ convert_poll_op(waiting[t].op) \subseteq interest[waiting[t].fd].events
  BY <1>1 DEF WaitersReachable
<1>4. CASE <<"socket", waiting[t].fd>> \in events
  <2>1. DataOf(<<"socket", waiting[t].fd>>) = Current(t)
    BY SMTT(60), <1>3 DEF DataOf
  <2> QED BY <1>2, <1>4, <2>1
<1>5. CASE <<"socket", waiting[t].fd>> \notin events
  BY SMTT(60), <1>2, <1>3, <1>5
<1> QED BY <1>4, <1>5

\* What leaves the batch goes to the pool, unless the model stops there.
LEMMA YieldReachable ==
    ASSUME LoopInv, WaitersReachable, NEW data \in batch, Yield(data)
    PROVE  WaitersReachable'
<1>1. /\ batch' = batch \ {data} /\ UNCHANGED <<interest, ops, waiting, lost>>
      /\ handed \subseteq handed' /\ (data \in Frames => data \in handed')
      /\ \A u \in Tasks : Current(u)' = Current(u)
  BY Zenon DEF Yield, kernelVars, Current, LoopInv, EventsKept
<1>2. \A u \in Tasks : waiting[u] # NoOp => Current(u) \in Frames
  BY WaitersFrames DEF LoopInv
<1>3. \A u \in Tasks : waiting[u] # NoOp /\ Current(u) \in handed \cup batch \cup lost =>
        Current(u) \in handed' \cup batch' \cup lost
  BY SMTT(60), <1>1, <1>2
<1> QED BY <1>1, <1>3 DEF WaitersReachable, convert_poll_op, is_readable, is_writable

\* The pool gives up a coroutine only by resuming it.
LEMMA ResumeReachable ==
    ASSUME LoopInv, WaitersReachable, NEW t \in Tasks, AwaitResume(t)
    PROVE  WaitersReachable'
<1>1. /\ handed' = handed \ {Current(t)} /\ UNCHANGED <<interest, batch, ops, lost>>
      /\ waiting'[t] = NoOp
      /\ \A u \in Tasks \ {t} : waiting'[u] = waiting[u] /\ Current(u) # Current(t)
      /\ \A u \in Tasks : Current(u)' = Current(u)
  BY SMTT(60), Addresses DEF AwaitResume, runVars, LoopInv, TypeOK, Current
<1> QED BY <1>1 DEF WaitersReachable, convert_poll_op, is_readable, is_writable

\* Every step keeps the waiting tasks reachable.
LEMMA NextReachable ==
    ASSUME LoopInv, WaitersReachable, [Next]_vars
    PROVE  WaitersReachable'
<1>1. CASE UNCHANGED vars
  BY <1>1, ReachableKept DEF vars, kernelVars, runVars, taskVars
<1>2. CASE Check \/ BatchEnds
  BY <1>2, ReachableKept DEF Check, BatchEnds, kernelVars, taskVars
<1>3. CASE EpollWait
  BY <1>3, EpollWaitReachable
<1>4. CASE \E data \in batch : Yield(data)
  BY <1>4, YieldReachable
<1>5. CASE Tick \/ ShutdownStops \/ ShutdownWakes
  BY <1>5, ReachableKept DEF Tick, ShutdownStops, ShutdownWakes, kernelVars, runVars, taskVars
<1>6. CASE \E fd \in Fds : register_handle(fd)
  BY Zenon, <1>6, ReachableKept DEF register_handle, runVars, taskVars
<1>7. CASE \E fd \in Fds : deregister_handle(fd)
  BY <1>7, DeregisterReachable
<1>8. CASE \E fd \in Fds : \E what \in Peers[fd] : Peer(fd, what)
  BY <1>8, ReachableKept DEF Peer, runVars, taskVars
<1>9. CASE \E a \in arming : ArmTimeout(a[1], a[2])
  BY <1>9, ReachableKept DEF ArmTimeout, runVars, taskVars
<1>10. CASE \E t \in Tasks : AwaitResume(t)
  BY <1>10, ResumeReachable
<1>11. CASE \E t \in Tasks : \E o \in Ops[t] : AwaitReady(t, o.fd, o.op)
  BY <1>11, ReachableKept DEF AwaitReady, kernelVars, runVars, taskVars
<1>12. CASE \E t \in Tasks : \E o \in Ops[t] : AwaitThrows(t, o.fd, o.op)
  <2>1. PICK t \in Tasks : /\ waiting[t] = NoOp /\ ops' = [ops EXCEPT ![t] = ops[t] + 1]
                           /\ UNCHANGED <<interest, batch, handed, waiting, lost>>
    BY Zenon, <1>12 DEF AwaitThrows, Idle, kernelVars, runVars
  <2>2. \A u \in Tasks : waiting[u] # NoOp => Current(u)' = Current(u)
    BY <2>1 DEF Current, LoopInv, TypeOK
  <2> QED BY <2>1, <2>2 DEF WaitersReachable, convert_poll_op, is_readable, is_writable
<1>13. CASE \E t \in Tasks : \E o \in Ops[t] : AwaitSuspend(t, o.fd, o.op, o.timeout)
  <2>1. \A t \in Tasks : \A o \in Ops[t] :
          o.fd \in Fds /\ o.op \in {"read", "write", "read_write"} /\ o.timeout \in Nat
    BY EpollAssumption
  <2> QED BY <1>13, <2>1, SuspendReachable
<1> QED BY <1>1, <1>2, <1>3, <1>4, <1>5, <1>6, <1>7, <1>8, <1>9, <1>10, <1>11, <1>12, <1>13 DEF Next, Run

\* For every set of tasks, descriptors and operations, and however many events
\* one epoll_wait() returns, the coroutine of a task that waits is in the
\* registration of its descriptor, among the events to yield or in the pool,
\* unless another operation or deregister_handle() took the registration.
THEOREM WaitersStayReachable == Spec => []WaitersReachable
<1>1. Init => WaitersReachable
  BY DEF Init, WaitersReachable
<1> QED BY InitHolds, NextKeeps, NextReachable, <1>1, PTL DEF Spec

=============================================================================
