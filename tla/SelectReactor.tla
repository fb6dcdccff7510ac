---------------------------- MODULE SelectReactor ----------------------------
(***************************************************************************)
(* The select() reactor (icc/SelectReactor.cpp) in a server: an acceptor   *)
(* and the connections it accepts (icc/Acceptor.cpp, icc/SvcHandler.cpp,   *)
(* icm/TcpConnection.cpp, icm/TcpTransport.cpp).  One thread waits for     *)
(* events and calls the handlers, which register and remove masks, accept  *)
(* connections and delete themselves meanwhile; a new connection gets the  *)
(* lowest free handle, often one just closed.                              *)
(*                                                                         *)
(* The handlers are those of this repository: on an error a handler        *)
(* removes itself and no other, and a publisher's input makes subscribers  *)
(* wait for output.  Handles stay below 64, the first word of a HandleSet. *)
(***************************************************************************)
EXTENDS Integers, FiniteSets, FiniteSetsExt

CONSTANTS
    Handle,         \* numbers; the operating system has no more handles
    Connections,    \* numbers from 1 of the connections made
    Kind            \* kinds of connection: "svc" (message broker), "tcp" (RPC)

ASSUME ReactorAssumption ==
    /\ Handle \subseteq Nat /\ IsFiniteSet(Handle) /\ 0 \in Handle
    /\ Connections \in SUBSET (Nat \ {0})
    /\ Kind \subseteq {"svc", "tcp"}

Acceptor == 0       \* the acceptor, and the handle it listens on
None == -1          \* no handler, no handle (ACE_INVALID_HANDLE)
Handler == {Acceptor} \cup Connections
Mask == {"write", "read"}

VARIABLES
    r,          \* the reactor and the handlers:
                \*   eventHandlers  handle -> handler, as SelectReactorHandlerRepository
                \*   wait           waitSet: mask -> set of handles
                \*   ready          dispatchSet: mask -> set of handles
                \*   handle         handler -> the open handle of its stream
                \*   alive          handlers not deleted
    pc,         \* "select", or the set dispatchIoSet() is working on
    iter,       \* handles the HandleSetIterator has still to give
    active, dispatched,     \* numActiveHandles, numHandlersDispatched
    reported,   \* handle -> the handler select() reported it for
    kind,       \* connection -> its kind
    input,      \* connection -> "none", "data" or "end": what there is to read
    backlog     \* connections waiting to be accepted

vars == <<r, pc, iter, active, dispatched, reported, kind, input, backlog>>

Init ==
    /\ r = [eventHandlers |-> [h \in Handle |-> IF h = Acceptor THEN Acceptor ELSE None],
            wait |-> [write |-> {}, read |-> {Acceptor}],
            ready |-> [write |-> {}, read |-> {}],
            handle |-> [c \in Handler |-> IF c = Acceptor THEN Acceptor ELSE None],
            alive |-> {Acceptor}]
    /\ pc = "select" /\ iter = {} /\ active = 0 /\ dispatched = 0
    /\ reported = [h \in Handle |-> None]
    /\ kind = [c \in Connections |-> "none"]
    /\ input = [c \in Connections |-> "none"]
    /\ backlog = {}

-----------------------------------------------------------------------------
(* The repository: bind, unbind and the masks they change.                 *)

Without(sets, h, masks) == [m \in Mask |-> IF m \in masks THEN sets[m] \ {h} ELSE sets[m]]

clearDispatchMask(s, h, masks) == [s EXCEPT !.ready = Without(@, h, masks)]

bind(s, h, c, mask) ==
    [s EXCEPT !.eventHandlers[h] = IF @ = None THEN c ELSE @,
              !.wait[mask] = @ \cup {h}]

UnbindWaitOnly(s, h, masks) ==
    IF s.eventHandlers[h] = None THEN s
    ELSE LET t == [s EXCEPT !.wait = Without(@, h, masks)]
         IN  IF \E m \in Mask : h \in t.wait[m] THEN t
             ELSE [t EXCEPT !.eventHandlers[h] = None]

(* Without the call of handleClose().                                      *)
unbind(s, h, masks) ==
    IF s.eventHandlers[h] = None THEN s
    ELSE LET t == clearDispatchMask([s EXCEPT !.wait = Without(@, h, masks)], h, masks)
         IN  IF \E m \in Mask : h \in t.wait[m] THEN t
             ELSE [t EXCEPT !.eventHandlers[h] = None]

(* ~SvcHandler: removed from the reactor with every mask, then closed.     *)
CloseThenRemove(s, c) ==
    [s EXCEPT !.handle[c] = None, !.alive = @ \ {c}]

Delete(s, c) ==
    LET t == IF s.handle[c] = None THEN s ELSE unbind(s, s.handle[c], Mask)
    IN  [t EXCEPT !.handle[c] = None, !.alive = @ \ {c}]

(* notifyHandle() after a callback that returned -1: handleClose() is      *)
(* called, and deletes the handler.                                        *)
Removed(s, h, mask) == Delete(unbind(s, h, {mask}), s.eventHandlers[h])

(* TcpTransport::closeConnection() closes the stream first, so that its    *)
(* removeHandler() finds no handle to remove.                              *)
closeConnection(s, c) == [s EXCEPT !.handle[c] = None]

-----------------------------------------------------------------------------
(* waitForMultipleEvents: select() leaves in the sets what is ready.  A    *)
(* connection takes output or not.                                         *)

Readable(h) ==
    LET owner == CHOOSE c \in r.alive : r.handle[c] = h
    IN  IF owner = Acceptor THEN backlog # {} ELSE input[owner] # "none"

select ==
    /\ pc = "select"
    /\ LET readable == {h \in r.wait["read"] : Readable(h)}
       IN  \E writable \in SUBSET r.wait["write"] :
             /\ active' = Cardinality(readable) + Cardinality(writable)
             /\ active' > 0
             /\ r' = [r EXCEPT !.ready = [write |-> writable, read |-> readable]]
             /\ iter' = writable
             /\ reported' = [h \in Handle |-> IF h \in readable \cup writable
                                                THEN r.eventHandlers[h] ELSE None]
    /\ dispatched' = 0
    /\ pc' = "write"
    /\ UNCHANGED <<kind, input, backlog>>

(* dispatchIoSet takes the next handle, until the count is reached.        *)
Dispatching == iter # {} /\ dispatched < active

Dispatch(mask, h) ==
    /\ pc = mask /\ Dispatching
    /\ h = Min(iter)
    /\ iter' = iter \ {h}
    /\ dispatched' = dispatched + 1
    /\ UNCHANGED <<pc, active, reported>>

(* The end of a set; the do loop of dispatch() goes round again while the  *)
(* count says that there is more.                                          *)
WritesFirst ==
    /\ pc \in Mask /\ ~Dispatching
    /\ pc' = IF pc = "write" /\ dispatched = 0 THEN "read" ELSE "select"
    /\ iter' = IF pc' = "read" THEN r.ready["read"] ELSE {}
    /\ UNCHANGED <<active, r, dispatched, reported, kind, input, backlog>>

dispatchIoSetEnds ==
    /\ pc \in Mask /\ ~Dispatching
    /\ IF pc = "write"
         THEN pc' = "read" /\ iter' = r.ready["read"] /\ UNCHANGED active
         ELSE IF active > dispatched
                THEN pc' = "write" /\ iter' = r.ready["write"] /\ active' = active - dispatched
                ELSE pc' = "select" /\ iter' = {} /\ active' = 0
    /\ UNCHANGED <<r, dispatched, reported, kind, input, backlog>>

-----------------------------------------------------------------------------
(* The callbacks.  s is the reactor after the callback, status its result. *)

Notified(mask, h, s, status) ==
    r' = clearDispatchMask(IF status < 0 THEN Removed(s, h, mask) ELSE s, h, {mask})

(* Acceptor::handleInput: a connection is accepted, on the lowest handle,  *)
(* and registered for input.  Without a free handle accept() fails.        *)
FreeHandle == Handle \ {r.handle[c] : c \in r.alive}

Accepted(h, new) ==
    LET c == Min(backlog)
        s == [r EXCEPT !.handle[c] = new, !.alive = @ \cup {c}]
    IN  /\ backlog' = backlog \ {c}
        /\ \E k \in Kind : kind' = [kind EXCEPT ![c] = k]
        /\ Notified("read", h, bind(s, new, c, "read"), 0)

AcceptUnchecked(h) ==
    /\ Dispatch("read", h)
    /\ r.eventHandlers[h] = Acceptor
    /\ Accepted(h, IF FreeHandle = {} THEN None ELSE Min(FreeHandle))
    /\ UNCHANGED input

Accept(h) ==
    /\ Dispatch("read", h)
    /\ r.eventHandlers[h] = Acceptor
    /\ IF FreeHandle = {} THEN Notified("read", h, r, 0) /\ UNCHANGED <<kind, backlog>>
       ELSE Accepted(h, Min(FreeHandle))
    /\ UNCHANGED input

(* handleInput of a connection: a message that makes some subscribers wait *)
(* for output, or an error: end of file, a broken message.  Reading when   *)
(* nothing is there is an error, too.                                      *)
Registered(s, subscribers) ==
    [s EXCEPT !.wait["write"] = @ \cup {s.handle[d] : d \in subscribers}]

handleInput(h) ==
    /\ Dispatch("read", h)
    /\ LET c == r.eventHandlers[h]
       IN  /\ c \in Connections
           /\ \/ /\ input[c] = "data"
                 /\ \E subscribers \in SUBSET {d \in r.alive \ {Acceptor} : kind[d] = "svc"} :
                      Notified("read", h, Registered(r, subscribers), 0)
              \/ Notified("read", h, IF kind[c] = "tcp" THEN closeConnection(r, c) ELSE r, -1)
           /\ input' = [input EXCEPT ![c] = "none"]
    /\ UNCHANGED <<kind, backlog>>

(* handleOutput of a subscriber: all is sent and the mask removed, or there *)
(* is more, or the send fails.                                             *)
handleOutput(h) ==
    /\ Dispatch("write", h)
    /\ LET c == r.eventHandlers[h]
       IN  /\ c \in Connections
           /\ \/ Notified("write", h, unbind(r, h, {"write"}), 0) /\ UNCHANGED input
              \/ Notified("write", h, r, 0) /\ UNCHANGED input
              \/ Notified("write", h, r, -1) /\ input' = [input EXCEPT ![c] = "none"]
    /\ UNCHANGED <<kind, backlog>>

-----------------------------------------------------------------------------
(* The peers connect, send and go away.                                    *)

PeerConnects ==
    /\ \E c \in Connections :
         /\ \A d \in Connections : (kind[d] # "none" \/ d \in backlog) <=> d < c
         /\ backlog' = backlog \cup {c}
    /\ UNCHANGED <<r, pc, iter, active, dispatched, reported, kind, input>>

PeerSends ==
    /\ \E c \in r.alive \ {Acceptor}, what \in {"data", "end"} :
         /\ input[c] = "none"
         /\ input' = [input EXCEPT ![c] = what]
    /\ UNCHANGED <<r, pc, iter, active, dispatched, reported, kind, backlog>>

Callback == \E h \in Handle :
    \/ Accept(h)
    \/ handleInput(h)
    \/ handleOutput(h)

Reactor == select \/ dispatchIoSetEnds \/ Callback

Next == Reactor \/ PeerConnects \/ PeerSends

Spec == Init /\ [][Next]_vars

(* handleEvents() is called again and again, and select() returns when     *)
(* something is ready.                                                     *)
FairSpec == Spec /\ WF_vars(Reactor)

-----------------------------------------------------------------------------
State ==
    [eventHandlers : [Handle -> Handler \cup {None}],
     wait : [Mask -> SUBSET Handle], ready : [Mask -> SUBSET Handle],
     handle : [Handler -> Handle \cup {None}],
     alive : SUBSET Handler]

TypeOK ==
    /\ r \in State
    /\ pc \in Mask \cup {"select"} /\ iter \subseteq Handle
    /\ active \in 0..2 * Cardinality(Handle) /\ dispatched \in 0..2 * Cardinality(Handle)
    /\ reported \in [Handle -> Handler \cup {None}]
    /\ kind \in [Connections -> Kind \cup {"none"}]
    /\ input \in [Connections -> {"none", "data", "end"}]
    /\ backlog \subseteq Connections

(* The handles select() waits for are those of the handlers there are: no  *)
(* handle is closed (select() would fail for ever), none leads to a        *)
(* deleted handler, and no handler waits for nothing.                      *)
RegistrationsMatch ==
    /\ \A c \in r.alive : r.handle[c] \in r.wait["read"] /\ r.eventHandlers[r.handle[c]] = c
    /\ \A h \in r.wait["read"] \cup r.wait["write"] :
          r.eventHandlers[h] \in r.alive /\ r.handle[r.eventHandlers[h]] = h
    /\ \A h \in Handle : r.eventHandlers[h] # None => h \in r.wait["read"]

(* A handler is called only for an event that select() reported for it,    *)
(* never for one of a handler that had the handle before; notifyHandle()   *)
(* meets no handle whose handler is gone.                                  *)
CalledForOwnEvent ==
    \A h \in iter : r.eventHandlers[h] = reported[h]

(* What makes the above hold in every reachable state.  The acceptor is    *)
(* never removed; a connection waits in the backlog until it has a handler *)
(* and a kind; and only subscribers wait for output.                       *)
Handlers ==
    /\ Acceptor \in r.alive /\ r.handle[Acceptor] = Acceptor
    /\ \A c \in backlog : kind[c] = "none"
    /\ \A c \in r.alive \ {Acceptor} : kind[c] # "none"
    /\ \A c \in r.alive :
         r.handle[c] \in r.wait["write"] => c # Acceptor /\ kind[c] = "svc"

(* What select() reported stays true of the handles not yet dispatched,    *)
(* and the iterator gives none but those.                                  *)
Ready ==
    /\ \A m \in Mask : \A h \in r.ready[m] :
         h \in r.wait[m] /\ r.eventHandlers[h] = reported[h]
    /\ Acceptor \in r.ready["read"] => backlog # {}
    /\ \A h \in iter : pc \in Mask /\ h \in r.ready[pc]

(* The inductive invariant.                                                *)
IInv == TypeOK /\ RegistrationsMatch /\ Handlers /\ Ready

(* What a peer sends is read, however busy the others are, and handlers    *)
(* that go away during a round of dispatch() keep no other from its turn.  *)
InputServed == \A c \in Connections : input[c] # "none" ~> input[c] = "none"
=============================================================================
