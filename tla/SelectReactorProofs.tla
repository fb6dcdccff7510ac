------------------------- MODULE SelectReactorProofs -------------------------
(***************************************************************************)
(* Safety of the reactor for any set of handles, any connections and any   *)
(* order of their events.                                                  *)
(***************************************************************************)
EXTENDS SelectReactor, WellFoundedInduction, TLAPS

(* A set of numbers has a least element.                                   *)
LEMMA MinLeast ==
    ASSUME NEW S \in SUBSET Nat, S # {}
    PROVE  Min(S) \in S /\ \A n \in S : Min(S) <= n
<1> DEFINE R == OpToRel(<, Nat)
<1>1. PICK x \in S : \A y \in S : ~(<<y, x>> \in R)
  BY NatLessThanWellFounded, WFMin, Zenon
<1>2. \A y \in Nat : y < x => <<y, x>> \in R
  BY SMT DEF OpToRel
<1> HIDE DEF R
<1>3. \A y \in S : ~(y < x)
  BY <1>1, <1>2, Zenon
<1>4. \A y \in S : x <= y
  BY <1>3
<1> QED
  BY <1>4, Zenon DEF Min

(* clearDispatchMask changes the ready sets only.                          *)
LEMMA ClearedFields ==
    ASSUME NEW s \in State, NEW h \in Handle, NEW masks \in SUBSET Mask,
           NEW t, t = clearDispatchMask(s, h, masks)
    PROVE  /\ t \in State /\ t.wait = s.wait /\ t.eventHandlers = s.eventHandlers
           /\ t.handle = s.handle /\ t.alive = s.alive
           /\ \A m \in masks : t.ready[m] = s.ready[m] \ {h}
           /\ \A m \in Mask \ masks : t.ready[m] = s.ready[m]
BY DEF clearDispatchMask, Without, State

(* Taking a handler out of the repository changes nothing else.            *)
LEMMA UnregisteredFields ==
    ASSUME NEW s \in State, NEW h \in Handle,
           NEW t, t = [s EXCEPT !.eventHandlers[h] = None]
    PROVE  /\ t \in State /\ t.handle = s.handle /\ t.alive = s.alive
           /\ t.wait = s.wait /\ t.ready = s.ready
           /\ t.eventHandlers = [s.eventHandlers EXCEPT ![h] = None]
BY DEF State

(* Handle h is in no set of some masks; its handler goes with the last of  *)
(* them.                                                                   *)
Unbound(t, s, h, masks) ==
    /\ t \in State /\ t.handle = s.handle /\ t.alive = s.alive
    /\ \A m \in masks : t.wait[m] = s.wait[m] \ {h} /\ t.ready[m] = s.ready[m] \ {h}
    /\ \A m \in Mask \ masks : t.wait[m] = s.wait[m] /\ t.ready[m] = s.ready[m]
    /\ (\E m \in Mask : h \in t.wait[m]) => t.eventHandlers = s.eventHandlers
    /\ (\A m \in Mask : h \notin t.wait[m]) =>
         t.eventHandlers = [s.eventHandlers EXCEPT ![h] = None]

(* unbind does that.                                                       *)
LEMMA UnbindFields ==
    ASSUME NEW s \in State, NEW h \in Handle, NEW masks \in SUBSET Mask,
           s.eventHandlers[h] # None, NEW t, t = unbind(s, h, masks)
    PROVE  Unbound(t, s, h, masks)
<1> DEFINE u == [s EXCEPT !.wait = Without(@, h, masks)]
           v == clearDispatchMask(u, h, masks)
<1>1. v = clearDispatchMask(u, h, masks)
  OBVIOUS
<1>2. /\ u \in State /\ u.handle = s.handle /\ u.alive = s.alive /\ u.ready = s.ready
      /\ u.eventHandlers = s.eventHandlers
      /\ \A m \in masks : u.wait[m] = s.wait[m] \ {h}
      /\ \A m \in Mask \ masks : u.wait[m] = s.wait[m]
  BY DEF State, Without
<1>3. t = IF \E m \in Mask : h \in v.wait[m] THEN v
          ELSE [v EXCEPT !.eventHandlers[h] = None]
  BY DEF unbind
<1> HIDE DEF u, v
<1>4. /\ v \in State /\ v.handle = u.handle /\ v.alive = u.alive /\ v.wait = u.wait
      /\ v.eventHandlers = u.eventHandlers
      /\ \A m \in masks : v.ready[m] = u.ready[m] \ {h}
      /\ \A m \in Mask \ masks : v.ready[m] = u.ready[m]
  BY <1>1, <1>2, ClearedFields
<1>5. CASE \E m \in Mask : h \in v.wait[m]
  BY <1>2, <1>3, <1>4, <1>5 DEF Unbound
<1>6. CASE ~\E m \in Mask : h \in v.wait[m]
  <2>1. t = [v EXCEPT !.eventHandlers[h] = None]
    BY <1>3, <1>6
  <2>2. /\ t \in State /\ t.handle = v.handle /\ t.alive = v.alive
        /\ t.wait = v.wait /\ t.ready = v.ready
        /\ t.eventHandlers = [v.eventHandlers EXCEPT ![h] = None]
    <3>1. v \in State
      BY <1>4
    <3> QED
      BY <2>1, <3>1, UnregisteredFields, ZenonT(30)
  <2> QED
    BY <1>2, <1>4, <1>6, <2>2 DEF Unbound
<1> QED
  BY <1>5, <1>6

(* Handlers are numbers, and None is not one.                              *)
LEMMA NoneIsNoHandler == None \notin Handler /\ None \notin Handle /\ Handler \subseteq Nat
BY ReactorAssumption DEF None, Handler, Acceptor

(* Nothing of handler c is left in t: not its handle h in the sets, its    *)
(* entry in the repository or the handler; all else is as in s.            *)
Gone(t, s, h, c) ==
    /\ t \in State
    /\ \A m \in Mask : t.wait[m] = s.wait[m] \ {h} /\ t.ready[m] = s.ready[m] \ {h}
    /\ t.eventHandlers = [s.eventHandlers EXCEPT ![h] = None]
    /\ t.handle = [s.handle EXCEPT ![c] = None]
    /\ t.alive = s.alive \ {c}

(* That is so after a callback that returned -1.                           *)
LEMMA RemovedFields ==
    ASSUME NEW s \in State, NEW c \in Handler, NEW h \in Handle, NEW mask \in Mask,
           s.eventHandlers[h] = c,
           \/ s.handle[c] = h
           \/ s.handle[c] = None /\ \A m \in Mask : h \in s.wait[m] => m = mask,
           \A m \in Mask : h \in s.ready[m] => h \in s.wait[m],
           NEW t, t = clearDispatchMask(Removed(s, h, mask), h, {mask})
    PROVE  Gone(t, s, h, c)
<1> DEFINE one == {mask}
           u == unbind(s, h, one)
           v == IF u.handle[c] = None THEN u ELSE unbind(u, u.handle[c], Mask)
           w == [v EXCEPT !.handle[c] = None, !.alive = @ \ {c}]
<1>a. t = clearDispatchMask(w, h, one)
  BY Zenon DEF Removed, Delete
<1>1. u = unbind(s, h, one)
  OBVIOUS
<1>2. w = [v EXCEPT !.handle[c] = None, !.alive = @ \ {c}]
  OBVIOUS
<1>3. v = IF u.handle[c] = None THEN u ELSE unbind(u, u.handle[c], Mask)
  OBVIOUS
<1>4. /\ c # None /\ h # None /\ s.eventHandlers[h] # None
      /\ one \in SUBSET Mask /\ \A m \in Mask : m \in one <=> m = mask
  BY NoneIsNoHandler
<1> HIDE DEF one, u, v, w
<1>5. /\ u \in State /\ u.handle = s.handle /\ u.alive = s.alive
      /\ \A m \in one : u.wait[m] = s.wait[m] \ {h} /\ u.ready[m] = s.ready[m] \ {h}
      /\ \A m \in Mask \ one : u.wait[m] = s.wait[m] /\ u.ready[m] = s.ready[m]
      /\ (\E m \in Mask : h \in u.wait[m]) => u.eventHandlers = s.eventHandlers
      /\ (\A m \in Mask : h \notin u.wait[m]) =>
           u.eventHandlers = [s.eventHandlers EXCEPT ![h] = None]
  BY <1>1, <1>4, UnbindFields DEF Unbound
<1>6. /\ v \in State /\ v.handle = s.handle /\ v.alive = s.alive
      /\ \A m \in Mask : v.wait[m] = s.wait[m] \ {h} /\ v.ready[m] = s.ready[m] \ {h}
      /\ v.eventHandlers = [s.eventHandlers EXCEPT ![h] = None]
  <2>1. CASE \E m \in Mask : h \in u.wait[m]
    <3>1. u.handle[c] = h /\ u.eventHandlers[h] # None
      BY <1>4, <1>5, <2>1
    <3>2. v = unbind(u, h, Mask) /\ Mask \in SUBSET Mask
      BY <1>3, <1>4, <3>1
    <3>3. /\ v \in State /\ v.handle = u.handle /\ v.alive = u.alive
          /\ \A m \in Mask : v.wait[m] = u.wait[m] \ {h} /\ v.ready[m] = u.ready[m] \ {h}
          /\ (\A m \in Mask : h \notin v.wait[m]) =>
               v.eventHandlers = [u.eventHandlers EXCEPT ![h] = None]
      <4>1. u \in State
        BY <1>5
      <4> QED
        BY <3>1, <3>2, <4>1, UnbindFields DEF Unbound
    <3>4. v.eventHandlers = [s.eventHandlers EXCEPT ![h] = None]
      BY <1>5, <2>1, <3>3
    <3>5. \A m \in Mask : v.wait[m] = s.wait[m] \ {h} /\ v.ready[m] = s.ready[m] \ {h}
      BY <1>5, <3>3
    <3> QED
      BY <1>5, <3>3, <3>4, <3>5
  <2>2. CASE ~\E m \in Mask : h \in u.wait[m]
    <3>1. u.eventHandlers = [s.eventHandlers EXCEPT ![h] = None]
      BY <1>5, <2>2
    <3>2. u.eventHandlers[h] = None
      BY <1>5, <3>1 DEF State
    <3>3. v = u
      BY <1>3, <1>5, <3>2 DEF unbind
    <3>4. \A m \in Mask : u.wait[m] = s.wait[m] \ {h} /\ u.ready[m] = s.ready[m] \ {h}
      BY <1>5, <2>2
    <3> QED
      BY <1>5, <3>1, <3>3, <3>4
  <2> QED
    BY <2>1, <2>2
<1>7. /\ w \in State /\ w.wait = v.wait /\ w.ready = v.ready /\ w.eventHandlers = v.eventHandlers
      /\ w.handle = [v.handle EXCEPT ![c] = None] /\ w.alive = v.alive \ {c}
  BY <1>2, <1>6, Zenon DEF State
<1>8. /\ t \in State /\ t.wait = w.wait /\ t.eventHandlers = w.eventHandlers
      /\ t.handle = w.handle /\ t.alive = w.alive
      /\ \A m \in one : t.ready[m] = w.ready[m] \ {h}
      /\ \A m \in Mask \ one : t.ready[m] = w.ready[m]
  <2>1. w \in State /\ one \in SUBSET Mask
    BY <1>4, <1>7
  <2>2. t \in State
    BY <1>a, <2>1, ClearedFields
  <2>3. t.wait = w.wait /\ t.eventHandlers = w.eventHandlers
    BY <1>a, <2>1, ClearedFields
  <2>4. t.handle = w.handle /\ t.alive = w.alive
    BY <1>a, <2>1, ClearedFields
  <2>5. \A m \in one : t.ready[m] = w.ready[m] \ {h}
    BY <1>a, <2>1, ClearedFields
  <2>6. \A m \in Mask \ one : t.ready[m] = w.ready[m]
    BY <1>a, <2>1, ClearedFields
  <2> QED
    BY <2>2, <2>3, <2>4, <2>5, <2>6, Zenon
<1>9. \A m \in Mask : t.wait[m] = s.wait[m] \ {h} /\ t.ready[m] = s.ready[m] \ {h}
  <2>1. ASSUME NEW m \in Mask PROVE t.wait[m] = s.wait[m] \ {h}
    <3>1. t.wait = v.wait
      BY <1>7, <1>8
    <3> QED
      BY <1>6, <3>1
  <2>2. ASSUME NEW m \in Mask PROVE t.ready[m] = s.ready[m] \ {h}
    <3>1. w.ready[m] = s.ready[m] \ {h}
      BY <1>6, <1>7
    <3> QED
      BY <1>8, <3>1, Zenon
  <2> QED
    BY <2>1, <2>2, Zenon
<1> QED
  BY <1>6, <1>7, <1>8, <1>9, Zenon DEF Gone

(* What is known of the handle h that dispatchIoSet calls back.            *)
LEMMA DispatchedHandle ==
    ASSUME IInv, NEW mask \in Mask, NEW h \in Handle, Dispatch(mask, h)
    PROVE  /\ h \in iter /\ h \in r.ready[mask] /\ h \in r.wait[mask] /\ h \in r.wait["read"]
           /\ r.eventHandlers[h] \in r.alive /\ r.eventHandlers[h] \in Handler
           /\ r.handle[r.eventHandlers[h]] = h
           /\ iter' = iter \ {h} /\ pc = mask /\ pc' = mask /\ UNCHANGED reported
<1>1. iter \in SUBSET Nat /\ iter # {}
  BY ReactorAssumption DEF IInv, TypeOK, Dispatch, Dispatching
<1>2. h \in iter
  BY <1>1, MinLeast DEF Dispatch
<1>3. pc = mask /\ iter' = iter \ {h} /\ UNCHANGED <<pc, reported>>
  BY DEF Dispatch
<1>4. h \in r.ready[mask] /\ h \in r.wait[mask]
  BY <1>2, <1>3 DEF IInv, Ready
<1>5. h \in r.wait["read"] \cup r.wait["write"]
  BY <1>4 DEF Mask
<1>6. r.eventHandlers[h] \in r.alive /\ r.handle[r.eventHandlers[h]] = h
  BY <1>5 DEF IInv, RegistrationsMatch
<1>7. h \in r.wait["read"]
  BY <1>6 DEF IInv, RegistrationsMatch
<1>8. r.eventHandlers[h] \in Handler
  BY <1>6 DEF IInv, TypeOK, State
<1> QED
  BY <1>2, <1>3, <1>4, <1>6, <1>7, <1>8

(* A callback that removes no handler: the handle is done with, and some   *)
(* subscribers wait for output, or one no longer does.                     *)
LEMMA KeptStep ==
    ASSUME IInv, NEW mask \in Mask, NEW h \in Handle, Dispatch(mask, h),
           UNCHANGED <<kind, backlog>>, r' \in State,
           r'.eventHandlers = r.eventHandlers, r'.handle = r.handle, r'.alive = r.alive,
           r'.wait["read"] = r.wait["read"],
           \A g \in r'.wait["write"] :
             \/ g \in r.wait["write"]
             \/ \E d \in r.alive \ {Acceptor} : kind[d] = "svc" /\ r.handle[d] = g,
           r'.ready[mask] = r.ready[mask] \ {h},
           \A m \in Mask : r'.ready[m] \subseteq r.ready[m] \cap r'.wait[m]
    PROVE  (RegistrationsMatch /\ Handlers /\ Ready)'
<1>1. /\ r.eventHandlers[h] \in r.alive /\ r.handle[r.eventHandlers[h]] = h
      /\ iter' = iter \ {h} /\ pc = mask /\ pc' = mask /\ UNCHANGED reported
  BY DispatchedHandle
<1>2. \A g \in r'.wait["write"] : r.eventHandlers[g] \in r.alive /\ r.handle[r.eventHandlers[g]] = g
  BY DEF IInv, RegistrationsMatch
<1>3. RegistrationsMatch'
  BY <1>2 DEF IInv, RegistrationsMatch
<1>4. Handlers'
  <2>1. \A c \in r.alive : r.handle[c] \in r'.wait["write"] => c # Acceptor /\ kind[c] = "svc"
    <3>1. \A c, d \in r.alive : r.handle[c] = r.handle[d] => c = d
      BY DEF IInv, RegistrationsMatch
    <3> QED
      BY <3>1 DEF IInv, Handlers
  <2> QED
    BY <2>1 DEF IInv, Handlers
<1>5. Ready'
  <2>1. \A m \in Mask : \A g \in r'.ready[m] : g \in r'.wait[m] /\ r'.eventHandlers[g] = reported'[g]
    BY <1>1 DEF IInv, Ready
  <2>2. Acceptor \in r'.ready["read"] => backlog' # {}
    BY DEF IInv, Ready, Mask
  <2>3. \A g \in iter' : pc' \in Mask /\ g \in r'.ready[pc']
    BY <1>1 DEF IInv, Ready
  <2> QED
    BY <2>1, <2>2, <2>3 DEF Ready
<1> QED
  BY <1>3, <1>4, <1>5

(* A callback that removes its handler: nothing else changes.              *)
LEMMA GoneStep ==
    ASSUME IInv, NEW mask \in Mask, NEW h \in Handle, Dispatch(mask, h),
           UNCHANGED <<kind, backlog>>, r' \in State,
           NEW c, c = r.eventHandlers[h], c # Acceptor,
           \A m \in Mask : r'.wait[m] = r.wait[m] \ {h} /\ r'.ready[m] = r.ready[m] \ {h},
           r'.eventHandlers = [r.eventHandlers EXCEPT ![h] = None],
           r'.handle = [r.handle EXCEPT ![c] = None],
           r'.alive = r.alive \ {c}
    PROVE  (RegistrationsMatch /\ Handlers /\ Ready)'
<1>1. /\ c \in r.alive /\ c \in Handler /\ r.handle[c] = h
      /\ iter' = iter \ {h} /\ pc = mask /\ pc' = mask /\ UNCHANGED reported
  BY DispatchedHandle
<1>2. /\ r.eventHandlers \in [Handle -> Handler \cup {None}]
      /\ r.handle \in [Handler -> Handle \cup {None}] /\ r.alive \subseteq Handler
      /\ r.wait \in [Mask -> SUBSET Handle] /\ r.ready \in [Mask -> SUBSET Handle]
  BY DEF IInv, TypeOK, State
<1>3. \A d \in r'.alive : d \in r.alive /\ d # c /\ r'.handle[d] = r.handle[d] /\ r.handle[d] # h
  BY <1>1, <1>2 DEF IInv, RegistrationsMatch
<1>4. \A g \in Handle : g # h => r'.eventHandlers[g] = r.eventHandlers[g]
  BY <1>2
<1>5. r'.eventHandlers[h] = None
  BY <1>2
<1>6. /\ r'.wait["read"] = r.wait["read"] \ {h} /\ r'.wait["write"] = r.wait["write"] \ {h}
      /\ r'.ready["read"] = r.ready["read"] \ {h}
      /\ r.wait["read"] \subseteq Handle /\ r.wait["write"] \subseteq Handle
  BY <1>2 DEF Mask
<1>7. RegistrationsMatch'
  <2>1. \A d \in r'.alive :
           r'.handle[d] \in r'.wait["read"] /\ r'.eventHandlers[r'.handle[d]] = d
    BY <1>3, <1>4, <1>6 DEF IInv, RegistrationsMatch
  <2>2. \A g \in r'.wait["read"] \cup r'.wait["write"] :
           r'.eventHandlers[g] \in r'.alive /\ r'.handle[r'.eventHandlers[g]] = g
    <3>1. SUFFICES ASSUME NEW g \in r'.wait["read"] \cup r'.wait["write"]
                   PROVE  r'.eventHandlers[g] \in r'.alive /\ r'.handle[r'.eventHandlers[g]] = g
      OBVIOUS
    <3>2. g # h /\ g \in Handle /\ g \in r.wait["read"] \cup r.wait["write"]
      BY <1>6
    <3>3. r.eventHandlers[g] \in r.alive /\ r.handle[r.eventHandlers[g]] = g
      BY <3>2 DEF IInv, RegistrationsMatch
    <3> QED
      BY <1>1, <1>3, <1>4, <3>2, <3>3
  <2>3. \A g \in Handle : r'.eventHandlers[g] # None => g \in r'.wait["read"]
    BY <1>4, <1>5, <1>6 DEF IInv, RegistrationsMatch
  <2> QED
    BY <2>1, <2>2, <2>3 DEF RegistrationsMatch
<1>8. Handlers'
  BY <1>2, <1>3, <1>6 DEF IInv, Handlers
<1>9. Ready'
  <2>1. \A m \in Mask : \A g \in r'.ready[m] : g \in r'.wait[m] /\ r'.eventHandlers[g] = reported'[g]
    BY <1>1, <1>2, <1>4 DEF IInv, Ready
  <2>2. Acceptor \in r'.ready["read"] => backlog' # {}
    BY <1>6 DEF IInv, Ready
  <2>3. \A g \in iter' : pc' \in Mask /\ g \in r'.ready[pc']
    BY <1>1 DEF IInv, Ready
  <2> QED
    BY <2>1, <2>2, <2>3 DEF Ready
<1> QED
  BY <1>7, <1>8, <1>9

(* A connection is accepted on a free handle.                              *)
LEMMA AcceptedStep ==
    ASSUME IInv, NEW h \in Handle, Dispatch("read", h), r.eventHandlers[h] = Acceptor,
           NEW c \in backlog, NEW new \in FreeHandle, NEW k \in Kind,
           kind' = [kind EXCEPT ![c] = k], backlog' = backlog \ {c}, r' \in State,
           r'.eventHandlers = [r.eventHandlers EXCEPT ![new] = c],
           r'.wait["read"] = r.wait["read"] \cup {new}, r'.wait["write"] = r.wait["write"],
           r'.ready["read"] = r.ready["read"] \ {h}, r'.ready["write"] = r.ready["write"],
           r'.handle = [r.handle EXCEPT ![c] = new], r'.alive = r.alive \cup {c}
    PROVE  (RegistrationsMatch /\ Handlers /\ Ready)'
<1>1. /\ h = Acceptor /\ iter' = iter \ {h} /\ pc = "read" /\ pc' = "read" /\ UNCHANGED reported
  BY DispatchedHandle DEF IInv, Handlers, Mask
<1>2. /\ r.eventHandlers \in [Handle -> Handler \cup {None}]
      /\ r.handle \in [Handler -> Handle \cup {None}] /\ r.alive \subseteq Handler
      /\ r.wait["read"] \subseteq Handle /\ r.wait["write"] \subseteq Handle
      /\ r.ready["read"] \subseteq Handle /\ r.ready["write"] \subseteq Handle
      /\ kind \in [Connections -> Kind \cup {"none"}] /\ c \in Connections
  BY DEF IInv, TypeOK, State, Mask
<1>3. c \in Handler /\ c # Acceptor /\ c \notin r.alive /\ k # "none"
  BY <1>2, ReactorAssumption DEF IInv, Handlers, Handler, Acceptor
<1>4. /\ new \in Handle /\ \A d \in r.alive : r.handle[d] # new
      /\ new \notin r.wait["read"] /\ new \notin r.wait["write"]
  BY DEF FreeHandle, IInv, RegistrationsMatch
<1>5. \A d \in r.alive : d # c /\ r'.handle[d] = r.handle[d]
  BY <1>2, <1>3
<1>6. r'.handle[c] = new /\ r'.eventHandlers[new] = c
  BY <1>2, <1>3, <1>4
<1>7. \A g \in Handle : g # new => r'.eventHandlers[g] = r.eventHandlers[g]
  BY <1>2
<1>8. RegistrationsMatch'
  <2>1. \A d \in r'.alive :
           r'.handle[d] \in r'.wait["read"] /\ r'.eventHandlers[r'.handle[d]] = d
    BY <1>2, <1>4, <1>5, <1>6, <1>7 DEF IInv, RegistrationsMatch
  <2>2. \A g \in r'.wait["read"] \cup r'.wait["write"] :
           r'.eventHandlers[g] \in r'.alive /\ r'.handle[r'.eventHandlers[g]] = g
    <3>1. SUFFICES ASSUME NEW g \in r'.wait["read"] \cup r'.wait["write"], g # new
                   PROVE  r'.eventHandlers[g] \in r'.alive /\ r'.handle[r'.eventHandlers[g]] = g
      BY <1>6
    <3>2. g \in Handle /\ g \in r.wait["read"] \cup r.wait["write"]
      BY <1>2, <3>1
    <3>3. r.eventHandlers[g] \in r.alive /\ r.handle[r.eventHandlers[g]] = g
      BY <3>2 DEF IInv, RegistrationsMatch
    <3> QED
      BY <1>5, <1>7, <3>1, <3>2, <3>3
  <2>3. \A g \in Handle : r'.eventHandlers[g] # None => g \in r'.wait["read"]
    BY <1>7 DEF IInv, RegistrationsMatch
  <2> QED
    BY <2>1, <2>2, <2>3 DEF RegistrationsMatch
<1>9. Handlers'
  <2>1. \A d \in Connections : kind'[d] = IF d = c THEN k ELSE kind[d]
    BY <1>2
  <2>2. \A d \in r.alive \ {Acceptor} : d \in Connections
    BY <1>2 DEF Handler
  <2>3. backlog \subseteq Connections
    BY DEF IInv, TypeOK
  <2>4. Acceptor \in r'.alive /\ r'.handle[Acceptor] = Acceptor
    BY <1>5 DEF IInv, Handlers
  <2>5. \A d \in backlog' : kind'[d] = "none"
    BY <2>1, <2>3 DEF IInv, Handlers
  <2>6. \A d \in r'.alive \ {Acceptor} : kind'[d] # "none"
    BY <1>2, <1>3, <2>1, <2>2 DEF IInv, Handlers
  <2>7. \A d \in r'.alive : r'.handle[d] \in r'.wait["write"] => d # Acceptor /\ kind'[d] = "svc"
    BY <1>4, <1>5, <1>6, <2>1, <2>2 DEF IInv, Handlers
  <2> QED
    BY <2>4, <2>5, <2>6, <2>7 DEF Handlers
<1>10. Ready'
  <2>1. \A m \in Mask : \A g \in r'.ready[m] : g \in r'.wait[m] /\ r'.eventHandlers[g] = reported'[g]
    <3>1. SUFFICES ASSUME NEW m \in Mask, NEW g \in r'.ready[m]
                   PROVE  g \in r'.wait[m] /\ r'.eventHandlers[g] = reported'[g]
      OBVIOUS
    <3>2. m = "read" \/ m = "write"
      BY DEF Mask
    <3>3. g \in r.ready[m] /\ r.wait[m] \subseteq r'.wait[m] /\ r.wait[m] \subseteq Handle
      BY <1>2, <3>2
    <3>4. g \in r.wait[m] /\ r.eventHandlers[g] = reported[g]
      BY <3>3 DEF IInv, Ready
    <3>5. g # new /\ g \in Handle
      BY <1>4, <3>2, <3>3, <3>4
    <3> QED
      BY <1>1, <1>7, <3>3, <3>4, <3>5
  <2>2. Acceptor \notin r'.ready["read"]
    BY <1>1
  <2>3. \A g \in iter' : pc' \in Mask /\ g \in r'.ready[pc']
    BY <1>1 DEF IInv, Ready
  <2> QED
    BY <2>1, <2>2, <2>3 DEF Ready
<1> QED
  BY <1>8, <1>9, <1>10

(* select() reports what is registered.                                    *)
LEMMA SelectStep ==
    ASSUME IInv, select
    PROVE  r' \in State /\ (RegistrationsMatch /\ Handlers /\ Ready)'
<1> DEFINE readable == {h \in r.wait["read"] : Readable(h)}
<1>1. PICK writable \in SUBSET r.wait["write"] :
         /\ r' = [r EXCEPT !.ready = [write |-> writable, read |-> readable]]
         /\ iter' = writable
         /\ reported' = [h \in Handle |-> IF h \in readable \cup writable
                                            THEN r.eventHandlers[h] ELSE None]
  BY Zenon DEF select
<1>2. pc' = "write" /\ UNCHANGED <<kind, backlog>>
  BY DEF select
<1>3. Acceptor \in readable => backlog # {}
  <2>1. SUFFICES ASSUME Acceptor \in readable PROVE backlog # {}
    OBVIOUS
  <2>2. \A c \in r.alive : r.handle[c] = Acceptor => c = Acceptor
    BY DEF IInv, RegistrationsMatch, Handlers
  <2>3. Acceptor = CHOOSE c \in r.alive : r.handle[c] = Acceptor
    BY <2>2 DEF IInv, Handlers
  <2> QED
    BY <2>1, <2>3, Zenon DEF Readable
<1>4. readable \subseteq r.wait["read"]
  OBVIOUS
<1> HIDE DEF readable
<1>5. r \in State /\ r.wait["read"] \subseteq Handle /\ r.wait["write"] \subseteq Handle
  BY DEF IInv, TypeOK, State, Mask
<1>6. [write |-> writable, read |-> readable] \in [Mask -> SUBSET Handle]
  BY <1>4, <1>5 DEF Mask
<1>7. /\ r' \in State /\ r'.wait = r.wait /\ r'.eventHandlers = r.eventHandlers
      /\ r'.handle = r.handle /\ r'.alive = r.alive
      /\ r'.ready = [write |-> writable, read |-> readable]
  BY <1>1, <1>5, <1>6 DEF State
<1>8. RegistrationsMatch'
  BY <1>7 DEF IInv, RegistrationsMatch
<1>9. Handlers'
  BY <1>2, <1>7 DEF IInv, Handlers
<1>10. Ready'
  <2>1. r'.ready["write"] = writable /\ r'.ready["read"] = readable
    BY <1>7
  <2>2. \A h \in readable \cup writable : r.eventHandlers[h] = reported'[h]
    BY <1>1, <1>4, <1>5
  <2>3. \A m \in Mask : \A h \in r'.ready[m] :
          h \in r'.wait[m] /\ r'.eventHandlers[h] = reported'[h]
    BY <1>4, <1>7, <2>1, <2>2 DEF Mask
  <2>4. \A h \in iter' : pc' \in Mask /\ h \in r'.ready[pc']
    BY <1>1, <1>2, <2>1 DEF Mask
  <2> QED
    BY <1>2, <1>3, <2>1, <2>3, <2>4 DEF Ready
<1> QED
  BY <1>7, <1>8, <1>9, <1>10

(* A callback that returned 0, whatever it did to the reactor.             *)
LEMMA NotifiedFields ==
    ASSUME NEW mask \in Mask, NEW h \in Handle, NEW s \in State, Notified(mask, h, s, 0)
    PROVE  /\ r' \in State
           /\ r'.wait = s.wait /\ r'.eventHandlers = s.eventHandlers
           /\ r'.handle = s.handle /\ r'.alive = s.alive
           /\ r'.ready[mask] = s.ready[mask] \ {h}
           /\ \A m \in Mask \ {mask} : r'.ready[m] = s.ready[m]
<1> DEFINE one == {mask}
<1>1. r' = clearDispatchMask(s, h, one)
  BY DEF Notified
<1>2. one \in SUBSET Mask /\ mask \in one /\ Mask \ one = Mask \ {mask}
  OBVIOUS
<1> HIDE DEF one
<1> QED
  BY <1>1, <1>2, ClearedFields

(* Acceptor::handleInput() preserves the invariant.                        *)
LEMMA AcceptStep ==
    ASSUME IInv, NEW h \in Handle, Accept(h)
    PROVE  r' \in State /\ (RegistrationsMatch /\ Handlers /\ Ready)'
<1>1. Dispatch("read", h) /\ r.eventHandlers[h] = Acceptor /\ "read" \in Mask
  BY DEF Accept, Mask
<1>2. r \in State /\ h \in r.ready["read"]
  BY <1>1, DispatchedHandle DEF IInv, TypeOK
<1>3. CASE FreeHandle = {}
  <2>1. Notified("read", h, r, 0) /\ UNCHANGED <<kind, backlog>>
    BY <1>3 DEF Accept
  <2>2. /\ r' \in State
        /\ r'.wait = r.wait /\ r'.eventHandlers = r.eventHandlers
        /\ r'.handle = r.handle /\ r'.alive = r.alive
        /\ r'.ready["read"] = r.ready["read"] \ {h}
        /\ \A m \in Mask \ {"read"} : r'.ready[m] = r.ready[m]
    BY <1>1, <1>2, <2>1, NotifiedFields
  <2>3. \A m \in Mask : r'.ready[m] \subseteq r.ready[m] \cap r'.wait[m]
    BY <2>2 DEF IInv, Ready
  <2> QED
    BY <1>1, <2>1, <2>2, <2>3, KeptStep
<1>4. CASE FreeHandle # {}
  <2> DEFINE new == Min(FreeHandle)
             c == Min(backlog)
             s == [r EXCEPT !.handle[c] = new, !.alive = @ \cup {c}]
  <2>1. Accepted(h, new)
    BY <1>4 DEF Accept
  <2>2. new \in FreeHandle /\ new \in Handle
    BY <1>4, MinLeast, ReactorAssumption DEF FreeHandle
  <2>3. h = Acceptor
    BY <1>1, DispatchedHandle DEF IInv, Handlers
  <2>4. backlog # {} /\ backlog \subseteq Connections
    BY <1>2, <2>3 DEF IInv, Ready, TypeOK
  <2>5. c \in backlog /\ c \in Handler
    BY <2>4, MinLeast, ReactorAssumption, Zenon DEF Handler
  <2>6. /\ backlog' = backlog \ {c}
        /\ \E k \in Kind : kind' = [kind EXCEPT ![c] = k]
        /\ Notified("read", h, bind(s, new, c, "read"), 0)
    BY <2>1, Zenon DEF Accepted
  <2> HIDE DEF new, c
  <2>7. /\ s \in State /\ s.eventHandlers = r.eventHandlers /\ s.wait = r.wait
        /\ s.ready = r.ready /\ s.handle = [r.handle EXCEPT ![c] = new]
        /\ s.alive = r.alive \cup {c}
    BY <1>2, <2>2, <2>5, Zenon DEF State
  <2> HIDE DEF s
  <2>8. s.eventHandlers[new] = None
    <3>1. \A d \in r.alive : r.handle[d] # new
      BY <2>2 DEF FreeHandle
    <3> QED
      BY <2>2, <2>7, <3>1 DEF IInv, RegistrationsMatch
  <2> DEFINE b == bind(s, new, c, "read")
  <2>9. /\ b \in State /\ b.eventHandlers = [s.eventHandlers EXCEPT ![new] = c]
        /\ b.wait = [s.wait EXCEPT !["read"] = @ \cup {new}]
        /\ b.ready = s.ready /\ b.handle = s.handle /\ b.alive = s.alive
    BY <1>1, <2>2, <2>5, <2>7, <2>8, ZenonT(30) DEF State, bind
  <2> HIDE DEF b
  <2>10. Notified("read", h, b, 0)
    BY <2>6 DEF b
  <2>11. /\ r' \in State
         /\ r'.wait = b.wait /\ r'.eventHandlers = b.eventHandlers
         /\ r'.handle = b.handle /\ r'.alive = b.alive
         /\ r'.ready["read"] = b.ready["read"] \ {h}
         /\ \A m \in Mask \ {"read"} : r'.ready[m] = b.ready[m]
    BY <1>1, <2>9, <2>10, NotifiedFields
  <2>12. /\ r'.wait["read"] = r.wait["read"] \cup {new} /\ r'.wait["write"] = r.wait["write"]
         /\ r'.ready["read"] = r.ready["read"] \ {h} /\ r'.ready["write"] = r.ready["write"]
    BY <1>2, <2>7, <2>9, <2>11 DEF State, Mask
  <2>13. /\ r'.eventHandlers = [r.eventHandlers EXCEPT ![new] = c]
         /\ r'.handle = [r.handle EXCEPT ![c] = new] /\ r'.alive = r.alive \cup {c}
    BY <2>7, <2>9, <2>11
  <2>14. PICK k \in Kind : kind' = [kind EXCEPT ![c] = k]
    BY <2>6, Zenon
  <2> QED
    BY <1>1, <2>2, <2>5, <2>6, <2>11, <2>12, <2>13, <2>14, AcceptedStep, Zenon
<1> QED
  BY <1>3, <1>4

(* An error of a callback, after which the connection is gone.  When       *)
(* TcpTransport closed the stream first, no mask but the one of the        *)
(* callback is left behind.                                                *)
LEMMA ErrorStep ==
    ASSUME IInv, NEW mask \in Mask, NEW h \in Handle, Dispatch(mask, h),
           UNCHANGED <<kind, backlog>>,
           NEW c \in Connections, c = r.eventHandlers[h],
           NEW s, s = r \/ (mask = "read" /\ kind[c] = "tcp" /\ s = closeConnection(r, c)),
           Notified(mask, h, s, -1)
    PROVE  r' \in State /\ (RegistrationsMatch /\ Handlers /\ Ready)'
<1>1. r \in State /\ c \in Handler /\ c # Acceptor /\ c \in r.alive /\ r.handle[c] = h
  BY DispatchedHandle, ReactorAssumption
     DEF IInv, TypeOK, Handler, Acceptor, RegistrationsMatch
<1>2. /\ s \in State /\ s.eventHandlers = r.eventHandlers /\ s.wait = r.wait
      /\ s.ready = r.ready /\ s.alive = r.alive
      /\ [s.handle EXCEPT ![c] = None] = [r.handle EXCEPT ![c] = None]
  BY <1>1 DEF closeConnection, State
<1>3. \/ s.handle[c] = h
      \/ s.handle[c] = None /\ \A m \in Mask : h \in s.wait[m] => m = mask
  <2>1. CASE s = r
    BY <1>1, <2>1
  <2>2. CASE mask = "read" /\ kind[c] = "tcp" /\ s = closeConnection(r, c)
    <3>1. s.handle[c] = None
      BY <1>1, <2>2 DEF closeConnection, State
    <3>2. h \notin r.wait["write"]
      BY <1>1, <2>2 DEF IInv, Handlers
    <3> QED
      BY <1>2, <2>2, <3>1, <3>2 DEF Mask
  <2> QED
    BY <2>1, <2>2
<1>4. \A m \in Mask : h \in s.ready[m] => h \in s.wait[m]
  BY <1>2 DEF IInv, Ready
<1>5. r' = clearDispatchMask(Removed(s, h, mask), h, {mask})
  BY DEF Notified
<1>6. s.eventHandlers[h] = c
  BY <1>2
<1>7. Gone(r', s, h, c)
  BY <1>1, <1>2, <1>3, <1>4, <1>5, <1>6, RemovedFields
<1>8. Gone(r', r, h, c)
  BY <1>2, <1>7 DEF Gone
<1> QED
  BY <1>1, <1>8, GoneStep DEF Gone

(* handleInput() of a connection preserves the invariant.                  *)
LEMMA InputStep ==
    ASSUME IInv, NEW h \in Handle, handleInput(h)
    PROVE  r' \in State /\ (RegistrationsMatch /\ Handlers /\ Ready)'
<1> DEFINE c == r.eventHandlers[h]
           served == {d \in r.alive \ {Acceptor} : kind[d] = "svc"}
<1>1. /\ Dispatch("read", h) /\ "read" \in Mask /\ c \in Connections
      /\ UNCHANGED <<kind, backlog>>
  BY DEF handleInput, Mask
<1>2. \/ \E subscribers \in SUBSET served : Notified("read", h, Registered(r, subscribers), 0)
      \/ Notified("read", h, IF kind[c] = "tcp" THEN closeConnection(r, c) ELSE r, -1)
  BY DEF handleInput
<1>3. ASSUME NEW subscribers \in SUBSET served, Notified("read", h, Registered(r, subscribers), 0)
      PROVE  r' \in State /\ (RegistrationsMatch /\ Handlers /\ Ready)'
  <2> DEFINE s == Registered(r, subscribers)
             hs == {r.handle[d] : d \in subscribers}
  <2>1. hs \subseteq Handle
    BY DEF IInv, TypeOK, State, RegistrationsMatch, Mask
  <2>2. \A g \in hs : \E d \in r.alive \ {Acceptor} : kind[d] = "svc" /\ r.handle[d] = g
    OBVIOUS
  <2>3. s = [r EXCEPT !.wait["write"] = @ \cup hs]
    BY DEF Registered
  <2>4. Notified("read", h, s, 0)
    BY <1>3
  <2> HIDE DEF hs, s, served
  <2>5. /\ s \in State /\ s.eventHandlers = r.eventHandlers /\ s.ready = r.ready
        /\ s.handle = r.handle /\ s.alive = r.alive
        /\ s.wait = [r.wait EXCEPT !["write"] = @ \cup hs]
    BY <2>1, <2>3 DEF IInv, TypeOK, State, Mask
  <2>6. s.wait["read"] = r.wait["read"] /\ s.wait["write"] = r.wait["write"] \cup hs
    BY <2>5 DEF IInv, TypeOK, State, Mask
  <2>7. /\ r' \in State /\ r'.wait = s.wait /\ r'.eventHandlers = s.eventHandlers
        /\ r'.handle = s.handle /\ r'.alive = s.alive
        /\ r'.ready["read"] = s.ready["read"] \ {h}
        /\ \A m \in Mask \ {"read"} : r'.ready[m] = s.ready[m]
    BY <1>1, <2>4, <2>5, NotifiedFields
  <2>8. \A g \in r'.wait["write"] :
          \/ g \in r.wait["write"]
          \/ \E d \in r.alive \ {Acceptor} : kind[d] = "svc" /\ r.handle[d] = g
    BY <2>2, <2>6, <2>7
  <2>9. \A m \in Mask : r'.ready[m] \subseteq r.ready[m] \cap r'.wait[m]
    <3>1. \A m \in Mask : r.ready[m] \subseteq r.wait[m] /\ r.wait[m] \subseteq r'.wait[m]
      BY <2>6, <2>7 DEF IInv, Ready, Mask
    <3>2. \A m \in Mask : r'.ready[m] \subseteq r.ready[m]
      BY <2>5, <2>7
    <3> QED
      BY <3>1, <3>2
  <2>10. /\ r'.eventHandlers = r.eventHandlers /\ r'.handle = r.handle /\ r'.alive = r.alive
         /\ r'.wait["read"] = r.wait["read"] /\ r'.ready["read"] = r.ready["read"] \ {h}
    BY <2>5, <2>6, <2>7
  <2> QED
    BY <1>1, <2>7, <2>8, <2>9, <2>10, KeptStep
<1>4. ASSUME Notified("read", h, IF kind[c] = "tcp" THEN closeConnection(r, c) ELSE r, -1)
      PROVE  r' \in State /\ (RegistrationsMatch /\ Handlers /\ Ready)'
  <2>1. PICK s : s = IF kind[c] = "tcp" THEN closeConnection(r, c) ELSE r
    OBVIOUS
  <2>2. Notified("read", h, s, -1)
    BY <1>4, <2>1
  <2>3. s = r \/ ("read" = "read" /\ kind[c] = "tcp" /\ s = closeConnection(r, c))
    BY <2>1
  <2> QED
    BY <1>1, <2>2, <2>3, ErrorStep
<1> QED
  BY <1>2, <1>3, <1>4

(* handleOutput() of a subscriber preserves the invariant.                 *)
LEMMA OutputStep ==
    ASSUME IInv, NEW h \in Handle, handleOutput(h)
    PROVE  r' \in State /\ (RegistrationsMatch /\ Handlers /\ Ready)'
<1> DEFINE c == r.eventHandlers[h]
           one == {"write"}
<1>1. /\ Dispatch("write", h) /\ "write" \in Mask /\ c \in Connections
      /\ UNCHANGED <<kind, backlog>> /\ r \in State
  BY DEF handleOutput, Mask, IInv, TypeOK
<1>2. \/ Notified("write", h, unbind(r, h, one), 0)
      \/ Notified("write", h, r, 0)
      \/ Notified("write", h, r, -1)
  BY DEF handleOutput
<1>3. c # None /\ h \in r.wait["read"]
  BY <1>1, DispatchedHandle, NoneIsNoHandler
<1>4. ASSUME NEW s \in State, Notified("write", h, s, 0),
             s.eventHandlers = r.eventHandlers, s.handle = r.handle, s.alive = r.alive,
             s.wait["read"] = r.wait["read"], s.ready["read"] = r.ready["read"],
             s.wait["write"] = r.wait["write"] \/ s.wait["write"] = r.wait["write"] \ {h},
             s.ready["write"] \ {h} = r.ready["write"] \ {h}
      PROVE  r' \in State /\ (RegistrationsMatch /\ Handlers /\ Ready)'
  <2>1. /\ r' \in State /\ r'.wait = s.wait /\ r'.eventHandlers = s.eventHandlers
        /\ r'.handle = s.handle /\ r'.alive = s.alive
        /\ r'.ready["write"] = s.ready["write"] \ {h}
        /\ \A m \in Mask \ {"write"} : r'.ready[m] = s.ready[m]
    BY <1>1, <1>4, NotifiedFields
  <2>2. r'.ready["write"] = r.ready["write"] \ {h} /\ r'.ready["read"] = r.ready["read"]
    BY <1>4, <2>1 DEF Mask
  <2>3. \A m \in Mask : r'.ready[m] \subseteq r.ready[m] \cap r'.wait[m]
    BY <1>4, <2>1, <2>2 DEF Mask, IInv, Ready
  <2>4. \A g \in r'.wait["write"] : g \in r.wait["write"]
    BY <1>4, <2>1
  <2>5. /\ r'.eventHandlers = r.eventHandlers /\ r'.handle = r.handle /\ r'.alive = r.alive
        /\ r'.wait["read"] = r.wait["read"]
    BY <1>4, <2>1
  <2> QED
    BY <1>1, <2>1, <2>2, <2>3, <2>4, <2>5, KeptStep
<1>5. CASE Notified("write", h, unbind(r, h, one), 0)
  <2> DEFINE s == unbind(r, h, one)
  <2>1. s = unbind(r, h, one)
    OBVIOUS
  <2>2. one \in SUBSET Mask /\ "write" \in one /\ "read" \in Mask \ one
    BY <1>1 DEF Mask
  <2> HIDE DEF one, s
  <2>3. /\ s \in State /\ s.handle = r.handle /\ s.alive = r.alive
        /\ \A m \in one : s.wait[m] = r.wait[m] \ {h} /\ s.ready[m] = r.ready[m] \ {h}
        /\ \A m \in Mask \ one : s.wait[m] = r.wait[m] /\ s.ready[m] = r.ready[m]
        /\ (\E m \in Mask : h \in s.wait[m]) => s.eventHandlers = r.eventHandlers
    <3>1. r \in State /\ r.eventHandlers[h] # None /\ one \in SUBSET Mask
      BY <1>1, <1>3, <2>2
    <3>2. Unbound(s, r, h, one)
      BY <2>1, <3>1, UnbindFields
    <3> QED
      BY <3>2 DEF Unbound
  <2>4. s.eventHandlers = r.eventHandlers
    BY <1>3, <2>2, <2>3
  <2>5. Notified("write", h, s, 0)
    BY <1>5, <2>1
  <2> QED
    BY <1>4, <2>2, <2>3, <2>4, <2>5
<1>6. CASE Notified("write", h, r, 0)
  BY <1>1, <1>4, <1>6
<1>7. CASE Notified("write", h, r, -1)
  BY <1>1, <1>7, ErrorStep
<1> QED
  BY <1>2, <1>5, <1>6, <1>7

(* The other variables keep their types.                                   *)
LEMMA OthersStep ==
    ASSUME IInv, [Next]_vars
    PROVE  /\ pc' \in Mask \cup {"select"} /\ iter' \subseteq Handle
           /\ reported' \in [Handle -> Handler \cup {None}]
           /\ kind' \in [Connections -> Kind \cup {"none"}]
           /\ input' \in [Connections -> {"none", "data", "end"}]
           /\ backlog' \subseteq Connections
<1> DEFINE Goal == /\ pc \in Mask \cup {"select"} /\ iter \subseteq Handle
                   /\ reported \in [Handle -> Handler \cup {None}]
                   /\ kind \in [Connections -> Kind \cup {"none"}]
                   /\ input \in [Connections -> {"none", "data", "end"}]
                   /\ backlog \subseteq Connections
<1>1. /\ pc \in Mask \cup {"select"} /\ iter \subseteq Handle
      /\ reported \in [Handle -> Handler \cup {None}]
      /\ kind \in [Connections -> Kind \cup {"none"}]
      /\ input \in [Connections -> {"none", "data", "end"}]
      /\ backlog \subseteq Connections
  BY DEF IInv, TypeOK
<1>2. /\ r.eventHandlers \in [Handle -> Handler \cup {None}]
      /\ r.wait["read"] \subseteq Handle /\ r.wait["write"] \subseteq Handle
      /\ r.ready["read"] \subseteq Handle /\ r.ready["write"] \subseteq Handle
  BY DEF IInv, TypeOK, State, Mask
<1>3. CASE select
  BY <1>1, <1>2, <1>3 DEF select, Mask
<1>4. CASE dispatchIoSetEnds
  BY <1>1, <1>2, <1>4 DEF dispatchIoSetEnds, Mask
<1>5. ASSUME NEW h \in Handle, Accept(h) PROVE Goal'
  <2>1. \/ UNCHANGED <<kind, backlog>>
        \/ /\ backlog' = backlog \ {Min(backlog)}
           /\ \E k \in Kind : kind' = [kind EXCEPT ![Min(backlog)] = k]
    BY <1>5 DEF Accept, Accepted
  <2>2. UNCHANGED <<pc, reported, input>> /\ iter' \subseteq iter
    BY <1>5 DEF Accept, Dispatch
  <2> QED
    BY <1>1, <2>1, <2>2
<1>6. ASSUME NEW h \in Handle, handleInput(h) \/ handleOutput(h) PROVE Goal'
  <2>1. UNCHANGED <<pc, reported, kind, backlog>> /\ iter' \subseteq iter
    BY <1>6 DEF handleInput, handleOutput, Dispatch
  <2>2. UNCHANGED input \/ \E c \in Connections : input' = [input EXCEPT ![c] = "none"]
    BY <1>6 DEF handleInput, handleOutput
  <2> QED
    BY <1>1, <2>1, <2>2
<1>7. CASE PeerConnects
  BY <1>1, <1>7 DEF PeerConnects
<1>8. CASE PeerSends
  BY <1>1, <1>8, Zenon DEF PeerSends
<1>9. CASE UNCHANGED vars
  BY <1>1, <1>9 DEF vars
<1> QED
  BY <1>3, <1>4, <1>5, <1>6, <1>7, <1>8, <1>9 DEF Next, Reactor, Callback

(* The end of a set: nothing but the iterator changes.                     *)
LEMMA EndsStep ==
    ASSUME IInv, dispatchIoSetEnds
    PROVE  r' \in State /\ (RegistrationsMatch /\ Handlers /\ Ready)'
<1>1. UNCHANGED <<r, reported, kind, backlog>>
  BY DEF dispatchIoSetEnds
<1>2. \A h \in iter' : pc' \in Mask /\ h \in r'.ready[pc']
  BY <1>1 DEF dispatchIoSetEnds, Mask
<1> QED
  BY <1>1, <1>2 DEF IInv, TypeOK, RegistrationsMatch, Handlers, Ready

(* A connection that is new has no kind yet.                               *)
LEMMA ConnectsStep ==
    ASSUME IInv, PeerConnects
    PROVE  r' \in State /\ (RegistrationsMatch /\ Handlers /\ Ready)'
<1>1. UNCHANGED <<r, pc, iter, reported, kind>>
  BY DEF PeerConnects
<1>2. PICK c \in Connections : /\ (kind[c] # "none" \/ c \in backlog) <=> c < c
                               /\ backlog' = backlog \cup {c}
  BY DEF PeerConnects
<1>3. kind[c] = "none"
  BY <1>2, ReactorAssumption
<1>4. Handlers'
  BY <1>1, <1>2, <1>3 DEF IInv, Handlers
<1>5. Ready'
  BY <1>1, <1>2 DEF IInv, Ready
<1> QED
  BY <1>1, <1>4, <1>5 DEF IInv, TypeOK, RegistrationsMatch

-----------------------------------------------------------------------------
(* The handles that select() found ready are counted.                      *)

INSTANCE FiniteSetTheorems

(* The reactor counts no more events than there are handles in two sets.   *)
LEMMA CountsStep ==
    ASSUME IInv, [Next]_vars
    PROVE  /\ active' \in 0..2 * Cardinality(Handle)
           /\ dispatched' \in 0..2 * Cardinality(Handle)
<1> DEFINE n == Cardinality(Handle)
<1>1. n \in Nat
  BY FS_CardinalityType, ReactorAssumption
<1>2. /\ active \in 0..2 * n /\ dispatched \in 0..2 * n
      /\ r.wait["read"] \subseteq Handle /\ r.wait["write"] \subseteq Handle
  BY DEF IInv, TypeOK, State, Mask
<1>3. CASE select
  <2> DEFINE readable == {h \in r.wait["read"] : Readable(h)}
  <2>1. PICK writable \in SUBSET r.wait["write"] :
           active' = Cardinality(readable) + Cardinality(writable)
    BY <1>3 DEF select
  <2>2. readable \in SUBSET Handle /\ writable \in SUBSET Handle
    BY <1>2
  <2> HIDE DEF readable
  <2>3. /\ Cardinality(readable) <= n /\ Cardinality(readable) \in Nat
        /\ Cardinality(writable) <= n /\ Cardinality(writable) \in Nat
    BY <2>2, FS_Subset, FS_CardinalityType, ReactorAssumption, ZenonT(40)
  <2>4. dispatched' = 0
    BY <1>3 DEF select
  <2> HIDE DEF n
  <2> QED
    BY <1>1, <2>1, <2>3, <2>4 DEF n
<1> HIDE DEF n
<1>4. ASSUME NEW mask, NEW h, Dispatch(mask, h)
      PROVE  active' \in 0..2 * n /\ dispatched' \in 0..2 * n
  BY <1>1, <1>2, <1>4 DEF Dispatch, Dispatching
<1>5. CASE dispatchIoSetEnds
  BY <1>1, <1>2, <1>5 DEF dispatchIoSetEnds, n
<1>6. CASE Callback
  BY <1>4, <1>6 DEF Callback, Accept, handleInput, handleOutput, n
<1>7. CASE PeerConnects \/ PeerSends \/ UNCHANGED vars
  BY <1>2, <1>7 DEF PeerConnects, PeerSends, vars, n
<1>8. ASSUME active' \in 0..2 * n /\ dispatched' \in 0..2 * n
      PROVE  /\ active' \in 0..2 * Cardinality(Handle)
             /\ dispatched' \in 0..2 * Cardinality(Handle)
  BY <1>8 DEF n
<1> QED
  BY <1>3, <1>5, <1>6, <1>7, <1>8 DEF Next, Reactor

(* The invariant holds in every reachable state of the reactor, for any    *)
(* handles and connections.  Proved action by action: what a callback does *)
(* to the sets, the repository and the handlers keeps them in step, and    *)
(* keeps what select() reported true of the handles still to be given.     *)
THEOREM ReactorInvariant == Spec => []IInv
<1>1. Init => IInv
  <2> SUFFICES ASSUME Init PROVE IInv
    OBVIOUS
  <2>1. /\ [write |-> {}, read |-> {Acceptor}] \in [Mask -> SUBSET Handle]
        /\ [write |-> {}, read |-> {}] \in [Mask -> SUBSET Handle]
    BY ReactorAssumption DEF Mask, Acceptor
  <2>2. r \in State
    BY <2>1, SMTT(30) DEF Init, State, Handler
  <2>3. TypeOK
    <3>1. Cardinality(Handle) \in Nat
      BY FS_CardinalityType, ReactorAssumption
    <3> QED
      BY <2>2, <3>1 DEF Init, TypeOK
  <2>4. RegistrationsMatch
    BY ReactorAssumption DEF Init, RegistrationsMatch, Handler, Acceptor
  <2>5. Handlers
    BY DEF Init, Handlers, Handler
  <2>6. Ready
    BY DEF Init, Ready, Mask
  <2> QED
    BY <2>3, <2>4, <2>5, <2>6 DEF IInv
<1>2. IInv /\ [Next]_vars => IInv'
  <2> SUFFICES ASSUME IInv, [Next]_vars PROVE IInv'
    OBVIOUS
  <2>1. ASSUME r' \in State /\ (RegistrationsMatch /\ Handlers /\ Ready)' PROVE IInv'
    <3>1. TypeOK'
      BY <2>1, CountsStep, OthersStep DEF TypeOK
    <3> QED
      BY <2>1, <3>1 DEF IInv
  <2>2. CASE select
    BY <2>1, <2>2, SelectStep
  <2>3. CASE dispatchIoSetEnds
    BY <2>1, <2>3, EndsStep
  <2>4. ASSUME NEW h \in Handle, Accept(h) PROVE IInv'
    BY <2>1, <2>4, AcceptStep
  <2>5. ASSUME NEW h \in Handle, handleInput(h) PROVE IInv'
    BY <2>1, <2>5, InputStep
  <2>6. ASSUME NEW h \in Handle, handleOutput(h) PROVE IInv'
    BY <2>1, <2>6, OutputStep
  <2>7. CASE PeerConnects
    BY <2>1, <2>7, ConnectsStep
  <2>8. CASE PeerSends \/ UNCHANGED vars
    <3>1. UNCHANGED <<r, pc, iter, reported, kind, backlog>>
      BY <2>8 DEF PeerSends, vars
    <3>2. r' \in State
      BY <3>1 DEF IInv, TypeOK
    <3>3. RegistrationsMatch'
      BY <3>1 DEF IInv, RegistrationsMatch
    <3>4. Handlers'
      BY <3>1 DEF IInv, Handlers
    <3>5. Ready'
      BY <3>1 DEF IInv, Ready
    <3> QED
      BY <2>1, <3>2, <3>3, <3>4, <3>5
  <2> QED
    BY <2>2, <2>3, <2>4, <2>5, <2>6, <2>7, <2>8 DEF Next, Reactor, Callback
<1> QED
  BY <1>1, <1>2, PTL DEF Spec

(* select() never waits on a closed handle, no handle leads to a deleted   *)
(* handler and no handler waits for nothing, however the callbacks remove  *)
(* and accept during a round.                                              *)
THEOREM RegistrationsAlwaysMatch == Spec => []RegistrationsMatch
<1>1. IInv => RegistrationsMatch
  BY DEF IInv
<1> QED
  BY <1>1, ReactorInvariant, PTL

(* A handler is called only for an event that select() reported for it,    *)
(* though a handle may be closed and given again during a round of         *)
(* dispatch().                                                             *)
THEOREM NoStaleEvent == Spec => []CalledForOwnEvent
<1>1. IInv => CalledForOwnEvent
  BY DEF IInv, Ready, CalledForOwnEvent
<1> QED
  BY <1>1, ReactorInvariant, PTL
=============================================================================
