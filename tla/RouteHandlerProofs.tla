------------------------- MODULE RouteHandlerProofs -------------------------
(* Theorems about RouteHandler, for every value of its constants. *)
EXTENDS RouteRefinement, FiniteSetTheorems, TLAPS

\* The disjuncts of Next, so that proofs need not expand Continue.
LEMMA NextCases ==
    ASSUME Next
    PROVE  \/ \E r \in Request :
                \/ Arrive(r) \/ IdemGet(r) \/ Conflict(r) \/ Replay(r)
                \/ Join(r) \/ Execute(r) \/ Reject(r) \/ Settle(r) \/ SettleRejected(r)
                \/ Return(r) \/ Keep(r) \/ StorePut(r) \/ Respond(r) \/ WaiterResume(r)
                \/ IdemGetFails(r) \/ StoreFails(r)
           \/ \E i \in Instance : Crash(i)
           \/ \E s \in Instance \cup {SharedStore}, k \in Key : Expire(s, k)
  BY DEF Next, Continue, StoreError

\* The dedupe key of a deduplicated request is a key of the in-flight map.
LEMMA DedupeKeyType ==
    ASSUME NEW r \in Request, req[r] \in RequestInfo, Deduped(r)
    PROVE  DedupeKeyOf(r) \in DedupeKey
  <1>1. CASE SingleFlight
    BY <1>1 DEF RequestInfo, DedupeKeyOf, DedupeKey
  <1>2. CASE ~SingleFlight
    BY <1>2 DEF RequestInfo, DedupeKeyOf, DedupeKey, Deduped, Keyed, HashOf
  <1>3. QED
    BY <1>1, <1>2

-----------------------------------------------------------------------------
(* Type correctness. *)

\* TypeOK is not inductive: a lookup is typed because only a request with an
\* Idempotency-Key does one.
TypeInv ==
    /\ TypeOK
    /\ \A r \in Request : pc[r] = "reading" => Keyed(r)

\* The part of TypeInv about the progress of requests.
ProgressType ==
    /\ pc \in [Request -> Phase]
    /\ req \in [Request -> RequestInfo \cup {None}]
    /\ \A r \in Request : pc[r] # "idle" => req[r] \in RequestInfo
    /\ \A r \in Request : pc[r] = "reading" => Keyed(r)

\* A request that has arrived moves on, other than to its lookup.
LEMMA GotoType ==
    ASSUME TypeInv, NEW r \in Request, pc[r] # "idle",
           NEW p \in Phase, p # "reading", Goto(r, p), UNCHANGED req
    PROVE  ProgressType'
  <1>1. pc' \in [Request -> Phase]
    BY DEF Goto, TypeInv, TypeOK
  <1>2. \A q \in Request : pc'[q] # "idle" => req'[q] \in RequestInfo
    BY DEF Goto, TypeInv, TypeOK
  <1>3. \A q \in Request : pc'[q] = "reading" => Keyed(q)'
    BY DEF Goto, TypeInv, TypeOK, Keyed
  <1>4. QED
    BY <1>1, <1>2, <1>3 DEF ProgressType, TypeInv, TypeOK

\* A request that has arrived is answered.
LEMMA ReplyType ==
    ASSUME TypeInv, NEW r \in Request, pc[r] # "idle", UNCHANGED req,
           NEW kind \in {"fresh", "shared", "replayed", "conflict", "error", "lost"},
           NEW e \in Request \cup {None}, Reply(r, kind, e)
    PROVE  ProgressType' /\ resp' \in [Request -> Answer \cup {None}]
  <1>1. ProgressType'
    BY GotoType DEF Reply, Phase
  <1>2. [kind |-> kind, exec |-> e] \in Answer
    BY DEF Answer
  <1>3. resp' \in [Request -> Answer \cup {None}]
    BY <1>2 DEF Reply, TypeInv, TypeOK
  <1>4. QED
    BY <1>1, <1>3

\* A settled request leaves the in-flight map well-typed.
LEMMA CloseFlightType ==
    ASSUME TypeOK, NEW r \in Request, CloseFlight(r)
    PROVE  inflight' \in [Instance -> [DedupeKey -> Request \cup {None}]]
  BY DEF TypeOK, CloseFlight

\* A request that starts to lead leaves the in-flight map well-typed.
LEMMA LeadType ==
    ASSUME TypeOK, NEW r \in Request, Lead(r)
    PROVE  inflight' \in [Instance -> [DedupeKey -> Request \cup {None}]]
  BY DEF TypeOK, Lead

\* A stored response leaves the stores well-typed.
LEMMA PutEntryType ==
    ASSUME TypeOK, NEW r \in Request, PutEntry(r)
    PROVE  store' \in [Instance \cup {SharedStore} -> [Key -> Request \cup {None}]]
  BY DEF TypeOK, PutEntry

\* A request that arrived came to one of the instances.
LEMMA InstType ==
    ASSUME TypeOK, NEW r \in Request, pc[r] # "idle"
    PROVE  req[r] \in RequestInfo /\ req[r].inst \in Instance
  BY DEF TypeOK, RequestInfo

\* Every step keeps the variables in their types.
LEMMA TypeStep ==
    ASSUME TypeInv, [Next]_vars
    PROVE  TypeInv'
  <1> TypeOK
    BY DEF TypeInv
  <1>1. CASE UNCHANGED vars
    BY <1>1 DEF vars, TypeInv, TypeOK, Keyed
  <1>2. ASSUME NEW r \in Request, Arrive(r) PROVE TypeInv'
    BY <1>2 DEF Arrive, Goto, TypeInv, TypeOK, Phase, Keyed
  <1>3. ASSUME NEW r \in Request, IdemGet(r) PROVE TypeInv'
    <2>1. ProgressType'
      BY <1>3, GotoType DEF IdemGet, Phase
    <2>2. StoredFor(r) \in Request \cup {None}
      BY <1>3, InstType DEF IdemGet, StoredFor, StoreOf, TypeInv, TypeOK, Keyed, RequestInfo
    <2>3. seen' \in [Request -> Request \cup {None}]
      BY <1>3, <2>2 DEF IdemGet, TypeOK
    <2>4. QED
      BY <1>3, <2>1, <2>3 DEF IdemGet, TypeInv, TypeOK, ProgressType
  <1>4. ASSUME NEW r \in Request, IdemGetFails(r) PROVE TypeInv'
    <2>1. ProgressType' /\ resp' \in [Request -> Answer \cup {None}]
      BY <1>4, ReplyType DEF IdemGetFails
    <2>2. QED
      BY <1>4, <2>1 DEF IdemGetFails, TypeInv, TypeOK, ProgressType
  <1>5. ASSUME NEW r \in Request, Conflict(r) PROVE TypeInv'
    <2>1. ProgressType' /\ resp' \in [Request -> Answer \cup {None}]
      BY <1>5, ReplyType DEF Conflict
    <2>2. QED
      BY <1>5, <2>1 DEF Conflict, TypeInv, TypeOK, ProgressType
  <1>6. ASSUME NEW r \in Request, Replay(r) PROVE TypeInv'
    <2>1. ProgressType' /\ resp' \in [Request -> Answer \cup {None}]
      BY <1>6, ReplyType DEF Replay, TypeOK
    <2>2. QED
      BY <1>6, <2>1 DEF Replay, TypeInv, TypeOK, ProgressType
  <1>7. ASSUME NEW r \in Request, Join(r) PROVE TypeInv'
    <2>1. ProgressType'
      BY <1>7, GotoType DEF Join, CanDispatch, Phase
    <2>2. FlightOf(r) \in Request \cup {None}
      BY <1>7, InstType, DedupeKeyType DEF Join, CanDispatch, FlightOf, TypeOK
    <2>3. flight' \in [Request -> Request \cup {None}]
      BY <1>7, <2>2 DEF Join, TypeOK
    <2>4. QED
      BY <1>7, <2>1, <2>3 DEF Join, TypeInv, TypeOK, ProgressType
  <1>8. ASSUME NEW r \in Request, Execute(r) \/ Reject(r) PROVE TypeInv'
    <2>1. ProgressType'
      BY <1>8, GotoType DEF Execute, Reject, Lead, CanDispatch, Phase
    <2>2. inflight' \in [Instance -> [DedupeKey -> Request \cup {None}]]
      BY <1>8, LeadType DEF Execute, Reject
    <2>3. slots' \in [Instance -> Int]
      BY <1>8 DEF Execute, Reject, TypeOK
    <2>4. QED
      BY <1>8, <2>1, <2>2, <2>3 DEF Execute, Reject, Lead, TypeInv, TypeOK, ProgressType
  <1>9. ASSUME NEW r \in Request, Settle(r) \/ SettleRejected(r) PROVE TypeInv'
    <2>1. ProgressType'
      BY <1>9, GotoType DEF Settle, SettleRejected, Phase
    <2>2. outcome' \in [Request -> Outcome \cup {None}]
      BY <1>9 DEF Settle, SettleRejected, Outcome, TypeOK
    <2>3. slots' \in [Instance -> Int]
      BY <1>9 DEF Settle, SettleRejected, Release, TypeOK
    <2>4. QED
      BY <1>9, <2>1, <2>2, <2>3 DEF Settle, SettleRejected, TypeInv, TypeOK, ProgressType
  <1>10. ASSUME NEW r \in Request, Return(r) PROVE TypeInv'
    <2>1. ProgressType' /\ resp' \in [Request -> Answer \cup {None}]
      BY <1>10, ReplyType DEF Return
    <2>2. inflight' \in [Instance -> [DedupeKey -> Request \cup {None}]]
      BY <1>10, CloseFlightType DEF Return
    <2>3. QED
      BY <1>10, <2>1, <2>2 DEF Return, TypeInv, TypeOK, ProgressType
  <1>11. ASSUME NEW r \in Request, Keep(r) PROVE TypeInv'
    <2>1. ProgressType'
      BY <1>11, GotoType DEF Keep, Phase
    <2>2. inflight' \in [Instance -> [DedupeKey -> Request \cup {None}]]
      BY <1>11, CloseFlightType DEF Keep
    <2>3. store' \in [Instance \cup {SharedStore} -> [Key -> Request \cup {None}]]
      BY <1>11, PutEntryType DEF Keep, TypeOK
    <2>4. QED
      BY <1>11, <2>1, <2>2, <2>3 DEF Keep, TypeInv, TypeOK, ProgressType
  <1>12. ASSUME NEW r \in Request, StorePut(r) PROVE TypeInv'
    <2>1. ProgressType'
      BY <1>12, GotoType DEF StorePut, Phase
    <2>2. store' \in [Instance \cup {SharedStore} -> [Key -> Request \cup {None}]]
      BY <1>12, PutEntryType DEF StorePut
    <2>3. QED
      BY <1>12, <2>1, <2>2 DEF StorePut, TypeInv, TypeOK, ProgressType
  <1>13. ASSUME NEW r \in Request, StoreFails(r) \/ Respond(r) PROVE TypeInv'
    <2>1. ProgressType' /\ resp' \in [Request -> Answer \cup {None}]
      BY <1>13, ReplyType DEF StoreFails, Respond
    <2>2. QED
      BY <1>13, <2>1 DEF StoreFails, Respond, TypeInv, TypeOK, ProgressType
  <1>14. ASSUME NEW r \in Request, WaiterResume(r) PROVE TypeInv'
    <2>1. ProgressType' /\ resp' \in [Request -> Answer \cup {None}]
      BY <1>14, ReplyType DEF WaiterResume, TypeOK
    <2>2. QED
      BY <1>14, <2>1 DEF WaiterResume, TypeInv, TypeOK, ProgressType
  <1>15. ASSUME NEW i \in Instance, Crash(i) PROVE TypeInv'
    <2>1. pc' \in [Request -> Phase]
      BY <1>15 DEF Crash, TypeOK, Phase
    <2>2. [kind |-> "lost", exec |-> None] \in Answer
      BY DEF Answer
    <2>3. resp' \in [Request -> Answer \cup {None}]
      BY <1>15, <2>2 DEF Crash, TypeOK
    <2>4. crashes' \in 0..MaxCrashes
      BY <1>15, ConfigAssumption DEF Crash, TypeOK
    <2>5. inflight' \in [Instance -> [DedupeKey -> Request \cup {None}]]
      BY <1>15 DEF Crash, TypeOK
    <2>6. store' \in [Instance \cup {SharedStore} -> [Key -> Request \cup {None}]]
      BY <1>15 DEF Crash, TypeOK
    <2>7. slots' \in [Instance -> Int]
      BY <1>15 DEF Crash, TypeOK
    <2>8. \A r \in Request : pc'[r] # "idle" => req'[r] \in RequestInfo
      BY <1>15 DEF Crash, TypeOK
    <2>9. \A r \in Request : pc'[r] = "reading" => Keyed(r)'
      BY <1>15 DEF Crash, TypeInv, TypeOK, Keyed
    <2>10. QED
      BY <1>15, <2>1, <2>3, <2>4, <2>5, <2>6, <2>7, <2>8, <2>9 DEF Crash, TypeInv, TypeOK
  <1>16. ASSUME NEW s \in Instance \cup {SharedStore}, NEW k \in Key, Expire(s, k) PROVE TypeInv'
    BY <1>16, ConfigAssumption DEF Expire, TypeInv, TypeOK, Keyed
  <1>17. QED
    BY <1>1, <1>2, <1>3, <1>4, <1>5, <1>6, <1>7, <1>8, <1>9, <1>10, <1>11, <1>12, <1>13,
       <1>14, <1>15, <1>16, NextCases

\* The variables have their types initially.
LEMMA TypeInit == Init => TypeInv
  BY ConfigAssumption DEF Init, TypeInv, TypeOK, Phase

\* The variables keep their types.
THEOREM TypeCorrect == Spec => []TypeOK
  <1>1. TypeInv => TypeOK
    BY DEF TypeInv
  <1>2. QED
    BY <1>1, TypeInit, TypeStep, PTL DEF Spec

-----------------------------------------------------------------------------
(* The in-flight map. *)

\* What a request is and where its flight is filed depends on its data only.
LEMMA SameData ==
    ASSUME NEW q \in Request, req'[q] = req[q]
    PROVE  (Keyed(q)' <=> Keyed(q)) /\ (Deduped(q)' <=> Deduped(q))
           /\ DedupeKeyOf(q)' = DedupeKeyOf(q) /\ HashOf(q)' = HashOf(q)
  BY DEF Deduped, Keyed, DedupeKeyOf, HashOf

\* Requests that are open stay what they are, and the map stays too.
LEMMA FlightsFrame ==
    ASSUME InflightExact, TypeInv, UNCHANGED inflight,
           \A q \in Request : Open(q)' <=> Open(q),
           \A q \in Request : Open(q) => req'[q] = req[q]
    PROVE  InflightExact'
  <1>1. ASSUME NEW r \in Request, Open(r)', Deduped(r)' PROVE FlightOf(r)' = r
    <2>1. Open(r) /\ req'[r] = req[r]
      BY <1>1
    <2>2. Deduped(r) /\ DedupeKeyOf(r)' = DedupeKeyOf(r)
      BY <1>1, <2>1, SameData
    <2>3. FlightOf(r) = r
      BY <2>1, <2>2 DEF InflightExact
    <2>4. QED
      BY <2>1, <2>2, <2>3 DEF FlightOf
  <1>2. ASSUME NEW i \in Instance, NEW d \in DedupeKey, NEW e \in Request, inflight'[i][d] = e
        PROVE  Open(e)' /\ Deduped(e)' /\ req'[e].inst = i /\ DedupeKeyOf(e)' = d
    <2>1. Open(e) /\ Deduped(e) /\ req[e].inst = i /\ DedupeKeyOf(e) = d
      BY <1>2 DEF InflightExact
    <2>2. Open(e)' /\ req'[e] = req[e]
      BY <2>1
    <2>3. QED
      BY <2>1, <2>2, SameData
  <1>3. QED
    BY <1>1, <1>2 DEF InflightExact

\* A step of r that files value v under its key, where only r's phase changes.
LEMMA MapUpdate ==
    ASSUME TypeInv, NEW r \in Request, pc[r] # "idle", Deduped(r), NEW v,
           inflight' = [inflight EXCEPT ![req[r].inst][DedupeKeyOf(r)] = v]
    PROVE  /\ inflight'[req[r].inst][DedupeKeyOf(r)] = v
           /\ \A i \in Instance, d \in DedupeKey :
                ~(i = req[r].inst /\ d = DedupeKeyOf(r)) => inflight'[i][d] = inflight[i][d]
  <1> DEFINE i0 == req[r].inst
             d0 == DedupeKeyOf(r)
  <1>1. d0 \in DedupeKey /\ i0 \in Instance
    BY InstType, DedupeKeyType DEF TypeInv
  <1>2. inflight' = [inflight EXCEPT ![i0][d0] = v]
    OBVIOUS
  <1>3. inflight \in [Instance -> [DedupeKey -> Request \cup {None}]]
    BY DEF TypeInv, TypeOK
  <1> HIDE DEF i0, d0
  <1>4. /\ inflight'[i0][d0] = v
        /\ \A i \in Instance, d \in DedupeKey :
             ~(i = i0 /\ d = d0) => inflight'[i][d] = inflight[i][d]
    BY <1>1, <1>2, <1>3
  <1>5. QED
    BY <1>4 DEF i0, d0

\* A request starts to lead: its key had no flight.
LEMMA FlightsLead ==
    ASSUME InflightExact, TypeInv, NEW r \in Request, Lead(r), Open(r)',
           \A q \in Request \ {r} : pc'[q] = pc[q]
    PROVE  InflightExact'
  <1>1. pc[r] # "idle" /\ ~Open(r) /\ UNCHANGED req
    BY DEF Lead, CanDispatch, Open
  <1>2. \A q \in Request : q # r => (Open(q)' <=> Open(q))
    BY DEF Open
  <1>3. \A q \in Request : (Deduped(q)' <=> Deduped(q)) /\ DedupeKeyOf(q)' = DedupeKeyOf(q)
    BY <1>1, SameData
  <1>4. \A q \in Request : Open(q) /\ Deduped(q) =>
            req[q].inst \in Instance /\ DedupeKeyOf(q) \in DedupeKey
    BY InstType, DedupeKeyType DEF Open, TypeInv
  <1>5. CASE ~Deduped(r)
    <2>1. inflight' = inflight
      BY <1>5 DEF Lead
    <2>2. ASSUME NEW q \in Request, Open(q)', Deduped(q)' PROVE FlightOf(q)' = q
      <3>1. q # r /\ Open(q) /\ Deduped(q)
        BY <2>2, <1>2, <1>3, <1>5
      <3>2. FlightOf(q) = q
        BY <3>1 DEF InflightExact
      <3>3. QED
        BY <3>2, <2>1, <1>1, <1>3 DEF FlightOf
    <2>3. ASSUME NEW i \in Instance, NEW d \in DedupeKey, NEW e \in Request, inflight'[i][d] = e
          PROVE  Open(e)' /\ Deduped(e)' /\ req'[e].inst = i /\ DedupeKeyOf(e)' = d
      <3>1. Open(e) /\ Deduped(e) /\ req[e].inst = i /\ DedupeKeyOf(e) = d
        BY <2>1, <2>3 DEF InflightExact
      <3>2. QED
        BY <3>1, <1>1, <1>2, <1>3
    <2>4. QED
      BY <2>2, <2>3 DEF InflightExact
  <1>6. CASE Deduped(r)
    <2>1. /\ inflight'[req[r].inst][DedupeKeyOf(r)] = r
          /\ \A i \in Instance, d \in DedupeKey :
               ~(i = req[r].inst /\ d = DedupeKeyOf(r)) => inflight'[i][d] = inflight[i][d]
      BY <1>1, <1>6, MapUpdate DEF Lead
    <2>2. inflight[req[r].inst][DedupeKeyOf(r)] = None
      BY <1>6 DEF Lead, FlightOf
    <2>3. ASSUME NEW q \in Request, Open(q)', Deduped(q)' PROVE FlightOf(q)' = q
      <3>1. CASE q = r
        BY <3>1, <2>1, <1>1, <1>3 DEF FlightOf
      <3>2. CASE q # r
        <4>1. Open(q) /\ Deduped(q)
          BY <3>2, <2>3, <1>2, <1>3
        <4>2. inflight[req[q].inst][DedupeKeyOf(q)] = q
          BY <4>1 DEF InflightExact, FlightOf
        <4>3. inflight'[req[q].inst][DedupeKeyOf(q)] = q
          BY <4>1, <4>2, <2>1, <2>2, <1>4, NamesAssumption
        <4>4. QED
          BY <4>3, <1>1, <1>3 DEF FlightOf
      <3>3. QED
        BY <3>1, <3>2
    <2>4. ASSUME NEW i \in Instance, NEW d \in DedupeKey, NEW e \in Request, inflight'[i][d] = e
          PROVE  Open(e)' /\ Deduped(e)' /\ req'[e].inst = i /\ DedupeKeyOf(e)' = d
      <3>1. CASE i = req[r].inst /\ d = DedupeKeyOf(r)
        BY <3>1, <2>1, <2>4, <1>1, <1>3, <1>6
      <3>2. CASE ~(i = req[r].inst /\ d = DedupeKeyOf(r))
        <4>1. inflight[i][d] = e
          BY <3>2, <2>1, <2>4
        <4>2. Open(e) /\ Deduped(e) /\ req[e].inst = i /\ DedupeKeyOf(e) = d
          BY <4>1 DEF InflightExact
        <4>3. QED
          BY <4>2, <1>1, <1>2, <1>3
      <3>3. QED
        BY <3>1, <3>2
    <2>5. QED
      BY <2>3, <2>4 DEF InflightExact
  <1>7. QED
    BY <1>5, <1>6

\* A settled request removes its promise and is no longer open.
LEMMA FlightsClose ==
    ASSUME InflightExact, TypeInv, NEW r \in Request, pc[r] = "settled",
           CloseFlight(r), UNCHANGED req, ~Open(r)',
           \A q \in Request \ {r} : pc'[q] = pc[q]
    PROVE  InflightExact'
  <1>1. \A q \in Request : q # r => (Open(q)' <=> Open(q))
    BY DEF Open
  <1>2. \A q \in Request : (Deduped(q)' <=> Deduped(q)) /\ DedupeKeyOf(q)' = DedupeKeyOf(q)
    BY SameData
  <1>3. \A q \in Request : Open(q) /\ Deduped(q) =>
            req[q].inst \in Instance /\ DedupeKeyOf(q) \in DedupeKey
    BY InstType, DedupeKeyType DEF Open, TypeInv
  <1>4. /\ Deduped(r) => inflight[req[r].inst][DedupeKeyOf(r)] = r
        /\ Deduped(r) => inflight'[req[r].inst][DedupeKeyOf(r)] = None
    BY MapUpdate DEF CloseFlight, InflightExact, FlightOf, Open
  <1>5. \A i \in Instance, d \in DedupeKey :
            ~(Deduped(r) /\ i = req[r].inst /\ d = DedupeKeyOf(r)) => inflight'[i][d] = inflight[i][d]
    BY MapUpdate DEF CloseFlight
  <1>6. ASSUME NEW q \in Request, Open(q)', Deduped(q)' PROVE FlightOf(q)' = q
    <2>1. q # r /\ Open(q) /\ Deduped(q)
      BY <1>6, <1>1, <1>2
    <2>2. inflight[req[q].inst][DedupeKeyOf(q)] = q
      BY <2>1 DEF InflightExact, FlightOf
    <2>3. inflight'[req[q].inst][DedupeKeyOf(q)] = q
      BY <2>1, <2>2, <1>3, <1>4, <1>5
    <2>4. QED
      BY <2>3, <1>2 DEF FlightOf
  <1>7. ASSUME NEW i \in Instance, NEW d \in DedupeKey, NEW e \in Request, inflight'[i][d] = e
        PROVE  Open(e)' /\ Deduped(e)' /\ req'[e].inst = i /\ DedupeKeyOf(e)' = d
    <2>1. ~(Deduped(r) /\ i = req[r].inst /\ d = DedupeKeyOf(r))
      BY <1>4, <1>7, NamesAssumption
    <2>2. inflight[i][d] = e
      BY <2>1, <1>5, <1>7
    <2>3. Open(e) /\ Deduped(e) /\ req[e].inst = i /\ DedupeKeyOf(e) = d
      BY <2>2 DEF InflightExact
    <2>4. e # r
      BY <2>1, <2>3
    <2>5. QED
      BY <2>3, <2>4, <1>1, <1>2
  <1>8. QED
    BY <1>6, <1>7 DEF InflightExact

\* A process that dies takes its flights and its requests with it.
LEMMA FlightsCrash ==
    ASSUME InflightExact, TypeInv, NEW i0 \in Instance, Crash(i0)
    PROVE  InflightExact'
  <1>1. UNCHANGED req
    BY DEF Crash
  <1>2. \A q \in Request : (Deduped(q)' <=> Deduped(q)) /\ DedupeKeyOf(q)' = DedupeKeyOf(q)
    BY <1>1, SameData
  <1>3. \A q \in Request : Open(q)' <=> Open(q) /\ req[q].inst # i0
    BY DEF Crash, Open
  <1>4. /\ \A d \in DedupeKey : inflight'[i0][d] = None
        /\ \A i \in Instance \ {i0} : inflight'[i] = inflight[i]
    BY DEF Crash, TypeInv, TypeOK
  <1>5. ASSUME NEW q \in Request, Open(q)', Deduped(q)' PROVE FlightOf(q)' = q
    <2>1. Open(q) /\ Deduped(q) /\ req[q].inst \in Instance \ {i0}
      BY <1>5, <1>2, <1>3, InstType DEF Open, TypeInv
    <2>2. inflight[req[q].inst][DedupeKeyOf(q)] = q
      BY <2>1 DEF InflightExact, FlightOf
    <2>3. QED
      BY <2>1, <2>2, <1>1, <1>2, <1>4 DEF FlightOf
  <1>6. ASSUME NEW i \in Instance, NEW d \in DedupeKey, NEW e \in Request, inflight'[i][d] = e
        PROVE  Open(e)' /\ Deduped(e)' /\ req'[e].inst = i /\ DedupeKeyOf(e)' = d
    <2>1. i # i0
      BY <1>4, <1>6, NamesAssumption
    <2>2. Open(e) /\ Deduped(e) /\ req[e].inst = i /\ DedupeKeyOf(e) = d
      BY <2>1, <1>4, <1>6 DEF InflightExact
    <2>3. QED
      BY <2>1, <2>2, <1>1, <1>2, <1>3
  <1>7. QED
    BY <1>5, <1>6 DEF InflightExact

\* Every step keeps the in-flight map exact.
LEMMA FlightsStep ==
    ASSUME InflightExact, TypeInv, [Next]_vars
    PROVE  InflightExact'
  <1> USE DEF Goto, Reply, Open
  <1> pc \in [Request -> Phase]
    BY DEF TypeInv, TypeOK
  <1>1. CASE UNCHANGED vars
    BY <1>1, FlightsFrame DEF vars
  <1>2. ASSUME NEW r \in Request, Arrive(r) PROVE InflightExact'
    <2>1. \A q \in Request : Open(q)' <=> Open(q)
      BY <1>2 DEF Arrive
    <2>2. \A q \in Request : Open(q) => req'[q] = req[q]
      BY <1>2 DEF Arrive
    <2>3. QED
      BY <1>2, <2>1, <2>2, FlightsFrame DEF Arrive
  <1>3. ASSUME NEW r \in Request,
               IdemGet(r) \/ IdemGetFails(r) \/ Conflict(r) \/ Replay(r)
        PROVE  InflightExact'
    BY <1>3, FlightsFrame DEF IdemGet, IdemGetFails, Conflict, Replay
  <1>4. ASSUME NEW r \in Request, Join(r) \/ WaiterResume(r) PROVE InflightExact'
    BY <1>4, FlightsFrame DEF Join, WaiterResume, CanDispatch
  <1>5. ASSUME NEW r \in Request, Settle(r) \/ SettleRejected(r) PROVE InflightExact'
    BY <1>5, FlightsFrame DEF Settle, SettleRejected
  <1>6. ASSUME NEW r \in Request, StorePut(r) \/ StoreFails(r) \/ Respond(r) PROVE InflightExact'
    BY <1>6, FlightsFrame DEF StorePut, StoreFails, Respond
  <1>7. ASSUME NEW r \in Request, Execute(r) \/ Reject(r) PROVE InflightExact'
    BY <1>7, FlightsLead DEF Execute, Reject
  <1>8. ASSUME NEW r \in Request, Return(r) \/ Keep(r) PROVE InflightExact'
    BY <1>8, FlightsClose DEF Return, Keep
  <1>9. ASSUME NEW s \in Instance \cup {SharedStore}, NEW k \in Key, Expire(s, k)
        PROVE  InflightExact'
    BY <1>9, FlightsFrame DEF Expire
  <1>10. QED
    BY <1>1, <1>2, <1>3, <1>4, <1>5, <1>6, <1>7, <1>8, <1>9, FlightsCrash, NextCases

\* The in-flight map holds exactly the open executions of deduplicated requests:
\* in a process, executions of one key never overlap and no flight is leaked.
THEOREM FlightsExact == Spec => []InflightExact
  <1>1. Init => InflightExact
    BY NamesAssumption DEF Init, InflightExact, Open
  <1>2. QED
    BY <1>1, TypeInit, TypeStep, FlightsStep, PTL DEF Spec

-----------------------------------------------------------------------------
(* Where answers come from. *)

\* e succeeded under idempotency key k.
Good(e, k) == Keyed(e) /\ req[e].key = k /\ outcome[e] = "ok"

\* r and e share a flight of one process.
Matches(r, e) ==
    /\ Deduped(r) /\ Deduped(e)
    /\ req[r].inst = req[e].inst
    /\ DedupeKeyOf(r) = DedupeKeyOf(e)

OutcomeLate ==
    \A r \in Request : outcome[r] # None => pc[r] \in {"settled", "storing", "stored", "done"}

StoreGood ==
    \A s \in Instance \cup {SharedStore}, k \in Key, e \in Request :
        store[s][k] = e => Good(e, k)

SeenGood ==
    \A r, e \in Request :
        seen[r] = e => pc[r] # "idle" /\ Keyed(r) /\ Good(e, req[r].key)

StoringGood ==
    \A r \in Request : pc[r] \in {"storing", "stored"} => Good(r, req[r].key)

JoinGood ==
    \A r \in Request : pc[r] = "waiting" =>
        flight[r] \in Request /\ pc[flight[r]] # "idle" /\ Matches(r, flight[r])

\* Both hashes are the same, or one is missing.
SameHash(r, e) == HashOf(e) = HashOf(r) \/ NoHash \in {HashOf(r), HashOf(e)}

AnswerGood(r, kind, e) ==
    IF kind = "replayed"
      THEN e \in Request /\ Keyed(r) /\ Good(e, req[r].key) /\ SameHash(r, e)
      ELSE e \in {r, None} \/ (e \in Request /\ pc[e] # "idle" /\ Matches(r, e))

RespGood ==
    \A r \in Request : resp[r] # None =>
        pc[r] = "done" /\ AnswerGood(r, resp[r].kind, resp[r].exec)

ProvenanceInv ==
    OutcomeLate /\ StoreGood /\ SeenGood /\ StoringGood /\ JoinGood /\ RespGood

\* Nobody un-arrives, changes its data, or changes an outcome.
LEMMA Persist ==
    ASSUME TypeInv, OutcomeLate, [Next]_vars
    PROVE  /\ OutcomeLate'
           /\ \A q \in Request : pc[q] # "idle" => pc'[q] # "idle" /\ req'[q] = req[q]
           /\ \A q \in Request : pc[q] = "done" => pc'[q] = "done"
           /\ \A q \in Request : outcome[q] # None => outcome'[q] = outcome[q]
  <1> DEFINE Goal == /\ OutcomeLate'
                     /\ \A q \in Request : pc[q] # "idle" => pc'[q] # "idle" /\ req'[q] = req[q]
                     /\ \A q \in Request : pc[q] = "done" => pc'[q] = "done"
                     /\ \A q \in Request : outcome[q] # None => outcome'[q] = outcome[q]
  <1> USE DEF OutcomeLate, Goto, Reply
  <1> pc \in [Request -> Phase] /\ req \in [Request -> RequestInfo \cup {None}]
      /\ outcome \in [Request -> Outcome \cup {None}]
    BY DEF TypeInv, TypeOK
  <1>1. CASE UNCHANGED vars
    BY <1>1 DEF vars
  <1>2. ASSUME NEW r \in Request, Arrive(r) PROVE Goal
    BY <1>2 DEF Arrive
  <1>3. ASSUME NEW r \in Request, IdemGet(r) PROVE Goal
    BY <1>3 DEF IdemGet
  <1>4. ASSUME NEW r \in Request, IdemGetFails(r) \/ Conflict(r) \/ Replay(r) PROVE Goal
    BY <1>4 DEF IdemGetFails, Conflict, Replay
  <1>5. ASSUME NEW r \in Request, Join(r) \/ Execute(r) \/ Reject(r) PROVE Goal
    BY <1>5 DEF Join, Execute, Reject, Lead, CanDispatch
  <1>6. ASSUME NEW r \in Request, Settle(r) \/ SettleRejected(r) PROVE Goal
    BY <1>6 DEF Settle, SettleRejected
  <1>7. ASSUME NEW r \in Request, Return(r) PROVE Goal
    BY <1>7 DEF Return
  <1>8. ASSUME NEW r \in Request, Keep(r) \/ StorePut(r) PROVE Goal
    BY <1>8 DEF Keep, StorePut
  <1>9. ASSUME NEW r \in Request, StoreFails(r) \/ Respond(r) \/ WaiterResume(r) PROVE Goal
    BY <1>9 DEF StoreFails, Respond, WaiterResume
  <1>10. ASSUME NEW i \in Instance, Crash(i) PROVE Goal
    BY <1>10 DEF Crash
  <1>11. ASSUME NEW s \in Instance \cup {SharedStore}, NEW k \in Key, Expire(s, k) PROVE Goal
    BY <1>11 DEF Expire
  <1>12. QED
    BY <1>1, <1>2, <1>3, <1>4, <1>5, <1>6, <1>7, <1>8, <1>9, <1>10, <1>11, NextCases

\* A success stays the success of its key.
LEMMA GoodPersists ==
    ASSUME TypeInv, OutcomeLate, [Next]_vars,
           NEW e \in Request, NEW k, Good(e, k)
    PROVE  Good(e, k)'
  <1>1. pc[e] # "idle" /\ outcome[e] # None
    BY NamesAssumption DEF Good, OutcomeLate
  <1>2. QED
    BY <1>1, Persist, SameData DEF Good

\* Only a leader with a success to keep files an entry, under its own key.
LEMMA StoreGoodStep ==
    ASSUME TypeInv, OutcomeLate, StoreGood, StoringGood, [Next]_vars
    PROVE  StoreGood'
  <1> SUFFICES ASSUME NEW s \in Instance \cup {SharedStore}, NEW k \in Key, NEW e \in Request,
                      store'[s][k] = e
               PROVE  Good(e, k)'
    BY DEF StoreGood
  <1> store \in [Instance \cup {SharedStore} -> [Key -> Request \cup {None}]]
    BY DEF TypeInv, TypeOK
  <1>1. store[s][k] = e => Good(e, k)'
    BY GoodPersists DEF StoreGood
  <1>2. ASSUME NEW r \in Request, PutEntry(r), Good(r, req[r].key) PROVE Good(e, k)'
    <2> DEFINE s0 == StoreOf(req[r].inst)
               k0 == req[r].key
    <2>1. store' = [store EXCEPT ![s0][k0] = r]
      BY <1>2 DEF PutEntry
    <2> HIDE DEF s0, k0
    <2>2. store[s][k] = e \/ (k = k0 /\ e = r)
      BY <2>1
    <2>3. QED
      BY <2>2, <1>1, <1>2, GoodPersists DEF k0
  <1>3. ASSUME NEW r \in Request, Keep(r) PROVE Good(e, k)'
    BY <1>1, <1>2, <1>3 DEF Keep, Storable, Good
  <1>4. ASSUME NEW r \in Request, StorePut(r) PROVE Good(e, k)'
    BY <1>2, <1>4 DEF StorePut, StoringGood
  <1>5. ASSUME NEW i \in Instance, Crash(i) PROVE Good(e, k)'
    BY <1>1, <1>5, NamesAssumption DEF Crash
  <1>6. ASSUME NEW t \in Instance \cup {SharedStore}, NEW j \in Key, Expire(t, j)
        PROVE  Good(e, k)'
    BY <1>1, <1>6, NamesAssumption DEF Expire
  <1>7. ASSUME UNCHANGED store PROVE Good(e, k)'
    BY <1>1, <1>7
  <1>8. QED
    BY <1>3, <1>4, <1>5, <1>6, <1>7, NextCases
       DEF vars, Arrive, IdemGet, IdemGetFails, Conflict, Replay, Join, Execute, Reject, Lead,
           Settle, SettleRejected, Return, StoreFails, Respond, WaiterResume

\* A lookup returns what the store holds for the key of the request.
LEMMA SeenGoodStep ==
    ASSUME TypeInv, OutcomeLate, StoreGood, SeenGood, [Next]_vars
    PROVE  SeenGood'
  <1> SUFFICES ASSUME NEW q \in Request, NEW e \in Request, seen'[q] = e
               PROVE  (pc[q] # "idle" /\ Keyed(q) /\ Good(e, req[q].key))'
    BY DEF SeenGood
  <1>1. ASSUME pc[q] # "idle", Keyed(q), Good(e, req[q].key)
        PROVE  (pc[q] # "idle" /\ Keyed(q) /\ Good(e, req[q].key))'
    <2>1. pc'[q] # "idle" /\ req'[q] = req[q]
      BY <1>1, Persist
    <2>2. Good(e, req[q].key)'
      BY <1>1, <2>1, GoodPersists DEF Good
    <2>3. QED
      BY <1>1, <2>1, <2>2, SameData
  <1>2. ASSUME NEW r \in Request, IdemGet(r) PROVE (pc[q] # "idle" /\ Keyed(q) /\ Good(e, req[q].key))'
    <2>1. CASE q # r
      BY <2>1, <1>1, <1>2 DEF IdemGet, SeenGood
    <2>2. CASE q = r
      <3>1. Keyed(r) /\ pc[r] # "idle" /\ req[r].key \in Key /\ StoreOf(req[r].inst) \in Instance \cup {SharedStore}
        BY <1>2, InstType DEF IdemGet, TypeInv, Keyed, RequestInfo, StoreOf
      <3>2. StoredFor(r) = e
        BY <1>2, <2>2 DEF IdemGet, TypeInv, TypeOK
      <3>3. Good(e, req[r].key)
        BY <3>1, <3>2 DEF StoredFor, StoreGood
      <3>4. QED
        BY <2>2, <3>1, <3>3, <1>1
    <2>3. QED
      BY <2>1, <2>2
  <1>3. ASSUME UNCHANGED seen PROVE (pc[q] # "idle" /\ Keyed(q) /\ Good(e, req[q].key))'
    BY <1>1, <1>3 DEF SeenGood
  <1>4. QED
    BY <1>2, <1>3, NextCases
       DEF vars, Arrive, IdemGetFails, Conflict, Replay, Join, Execute, Reject, Lead, Crash, Expire,
           Settle, SettleRejected, Return, Keep, StorePut, StoreFails, Respond, WaiterResume

\* Only a stored success goes through "storing" and "stored".
LEMMA StoringGoodStep ==
    ASSUME TypeInv, OutcomeLate, StoringGood, [Next]_vars
    PROVE  StoringGood'
  <1> SUFFICES ASSUME NEW q \in Request, pc'[q] \in {"storing", "stored"}
               PROVE  Good(q, req[q].key)'
    BY DEF StoringGood
  <1> USE DEF Goto, Reply
  <1> pc \in [Request -> Phase]
    BY DEF TypeInv, TypeOK
  <1>1. ASSUME pc[q] \in {"storing", "stored"} PROVE Good(q, req[q].key)'
    BY <1>1, GoodPersists DEF StoringGood, Good
  <1>2. ASSUME NEW r \in Request, Keep(r) PROVE Good(q, req[q].key)'
    <2>1. Good(r, req[r].key)
      BY <1>2 DEF Keep, Storable, Good
    <2>2. Good(r, req[r].key)'
      BY <2>1, GoodPersists DEF Good
    <2>3. q # r => pc'[q] = pc[q]
      BY <1>2 DEF Keep
    <2>4. QED
      BY <1>1, <2>2, <2>3
  <1>3. ASSUME pc'[q] = pc[q] \/ pc[q] = "storing" PROVE Good(q, req[q].key)'
    BY <1>1, <1>3
  <1>4. ASSUME NEW r \in Request, StorePut(r) PROVE Good(q, req[q].key)'
    BY <1>3, <1>4 DEF StorePut
  <1>5. ASSUME NEW r \in Request, Arrive(r) PROVE Good(q, req[q].key)'
    BY <1>3, <1>5 DEF Arrive
  <1>6. QED
    BY <1>2, <1>3, <1>4, <1>5, NextCases
       DEF vars, IdemGet, IdemGetFails, Conflict, Replay, Join, Execute, Reject, Crash, Expire,
           Settle, SettleRejected, Return, StoreFails, Respond, WaiterResume

\* Requests that share a flight go on sharing it.
LEMMA MatchPersists ==
    ASSUME TypeInv, OutcomeLate, [Next]_vars, NEW r \in Request, NEW e \in Request,
           pc[r] # "idle", pc[e] # "idle", Matches(r, e)
    PROVE  pc'[e] # "idle" /\ Matches(r, e)'
  BY Persist, SameData DEF Matches

\* A request joins the flight filed under its own key.
LEMMA JoinMatches ==
    ASSUME TypeInv, InflightExact, NEW r \in Request, Join(r)
    PROVE  FlightOf(r) \in Request /\ pc[FlightOf(r)] # "idle" /\ Matches(r, FlightOf(r))
  <1> DEFINE i == req[r].inst
             d == DedupeKeyOf(r)
             e == FlightOf(r)
  <1>1. i \in Instance /\ d \in DedupeKey
    BY InstType, DedupeKeyType DEF Join, CanDispatch, TypeInv
  <1>2. e \in Request /\ inflight[i][d] = e
    BY <1>1 DEF Join, FlightOf, TypeInv, TypeOK
  <1>3. Open(e) /\ Deduped(e) /\ req[e].inst = i /\ DedupeKeyOf(e) = d
    BY <1>1, <1>2 DEF InflightExact
  <1>4. QED
    BY <1>2, <1>3 DEF Open, Matches, Join

\* A joiner waits for, and takes its answer from, an execution that it shares.
LEMMA JoinGoodStep ==
    ASSUME TypeInv, InflightExact, OutcomeLate, JoinGood, [Next]_vars
    PROVE  JoinGood'
  <1> SUFFICES ASSUME NEW q \in Request, pc'[q] = "waiting"
               PROVE  (flight[q] \in Request /\ pc[flight[q]] # "idle" /\ Matches(q, flight[q]))'
    BY DEF JoinGood
  <1> USE DEF Goto, Reply
  <1> pc \in [Request -> Phase] /\ flight \in [Request -> Request \cup {None}]
    BY DEF TypeInv, TypeOK
  <1>1. ASSUME pc[q] = "waiting", flight'[q] = flight[q]
        PROVE  (flight[q] \in Request /\ pc[flight[q]] # "idle" /\ Matches(q, flight[q]))'
    <2>1. flight[q] \in Request /\ pc[flight[q]] # "idle" /\ Matches(q, flight[q])
      BY <1>1 DEF JoinGood
    <2>2. pc'[flight[q]] # "idle" /\ Matches(q, flight[q])
      BY <1>1, <2>1, MatchPersists
    <2>3. req'[q] = req[q] /\ req'[flight[q]] = req[flight[q]]
      BY <1>1, <2>1, Persist
    <2>4. QED
      BY <1>1, <2>1, <2>2, <2>3, SameData DEF Matches
  <1>2. ASSUME NEW r \in Request, Join(r)
        PROVE  (flight[q] \in Request /\ pc[flight[q]] # "idle" /\ Matches(q, flight[q]))'
    <2>1. CASE q # r
      BY <1>1, <1>2, <2>1 DEF Join
    <2>2. CASE q = r
      <3> DEFINE e == FlightOf(r)
      <3>1. e \in Request /\ pc[e] # "idle" /\ Matches(r, e)
        BY <1>2, JoinMatches
      <3>2. flight'[q] = e
        BY <1>2, <2>2 DEF Join
      <3>3. req' = req /\ pc'[e] # "idle"
        BY <1>2, <3>1 DEF Join
      <3>4. QED
        BY <2>2, <3>1, <3>2, <3>3, SameData DEF Matches
    <2>3. QED
      BY <2>1, <2>2
  <1>3. ASSUME pc'[q] = pc[q], UNCHANGED flight
        PROVE  (flight[q] \in Request /\ pc[flight[q]] # "idle" /\ Matches(q, flight[q]))'
    BY <1>1, <1>3
  <1>4. ASSUME NEW r \in Request, Arrive(r)
        PROVE  (flight[q] \in Request /\ pc[flight[q]] # "idle" /\ Matches(q, flight[q]))'
    BY <1>3, <1>4 DEF Arrive
  <1>5. ASSUME NEW r \in Request, Keep(r)
        PROVE  (flight[q] \in Request /\ pc[flight[q]] # "idle" /\ Matches(q, flight[q]))'
    BY <1>3, <1>5 DEF Keep
  <1>6. QED
    BY <1>2, <1>3, <1>4, <1>5, NextCases
       DEF vars, IdemGet, IdemGetFails, Conflict, Replay, Execute, Reject, Lead, Crash, Expire,
           Settle, SettleRejected, Return, StorePut, StoreFails, Respond, WaiterResume

\* An answer that was good stays good.
LEMMA AnswerPersists ==
    ASSUME TypeInv, OutcomeLate, [Next]_vars, NEW r \in Request, pc[r] # "idle",
           NEW kind, NEW e, AnswerGood(r, kind, e)
    PROVE  AnswerGood(r, kind, e)'
  <1>1. req'[r] = req[r]
    BY Persist
  <1>2. CASE kind = "replayed"
    <2>1. e \in Request /\ Keyed(r) /\ Good(e, req[r].key) /\ SameHash(r, e)
      BY <1>2 DEF AnswerGood
    <2>2. Good(e, req[r].key)' /\ pc[e] # "idle"
      BY <2>1, <1>1, GoodPersists, NamesAssumption DEF Good, OutcomeLate
    <2>3. HashOf(e)' = HashOf(e) /\ HashOf(r)' = HashOf(r) /\ (Keyed(r)' <=> Keyed(r))
      BY <2>1, <2>2, <1>1, Persist, SameData
    <2>4. QED
      BY <1>2, <2>1, <2>2, <2>3 DEF AnswerGood, SameHash
  <1>3. CASE kind # "replayed"
    BY <1>3, MatchPersists DEF AnswerGood
  <1>4. QED
    BY <1>2, <1>3

\* The answers given by one step are good.
LEMMA AnswerStep ==
    ASSUME TypeInv, ProvenanceInv, [Next]_vars, NEW r \in Request, pc[r] # "idle",
           NEW kind, NEW e, Reply(r, kind, e), AnswerGood(r, kind, e),
           \A q \in Request : resp[q] # None => pc[q] = "done" /\ AnswerGood(q, resp[q].kind, resp[q].exec)
    PROVE  RespGood'
  <1> SUFFICES ASSUME NEW q \in Request, resp'[q] # None
               PROVE  (pc[q] = "done" /\ AnswerGood(q, resp[q].kind, resp[q].exec))'
    BY DEF RespGood
  <1> resp \in [Request -> Answer \cup {None}] /\ pc \in [Request -> Phase]
    BY DEF TypeInv, TypeOK
  <1>1. CASE q = r
    <2>1. resp'[r].kind = kind /\ resp'[r].exec = e /\ pc'[r] = "done"
      BY DEF Reply, Goto
    <2>2. AnswerGood(r, kind, e)'
      BY AnswerPersists DEF ProvenanceInv
    <2>3. QED
      BY <1>1, <2>1, <2>2 DEF AnswerGood
  <1>2. CASE q # r
    <2>1. resp'[q] = resp[q] /\ pc'[q] = pc[q]
      BY <1>2 DEF Reply, Goto
    <2>2. pc[q] = "done" /\ AnswerGood(q, resp[q].kind, resp[q].exec)
      BY <2>1
    <2>3. PICK k0, e0 : k0 = resp[q].kind /\ e0 = resp[q].exec
      OBVIOUS
    <2>4. AnswerGood(q, k0, e0)'
      BY <2>2, <2>3, AnswerPersists DEF ProvenanceInv
    <2>5. QED
      BY <2>1, <2>2, <2>3, <2>4 DEF AnswerGood
  <1>3. QED
    BY <1>1, <1>2

\* A step that answers nobody.
LEMMA AnswerFrame ==
    ASSUME TypeInv, ProvenanceInv, [Next]_vars, UNCHANGED resp
    PROVE  RespGood'
  <1> SUFFICES ASSUME NEW q \in Request, resp'[q] # None
               PROVE  (pc[q] = "done" /\ AnswerGood(q, resp[q].kind, resp[q].exec))'
    BY DEF RespGood
  <1>1. pc[q] = "done" /\ AnswerGood(q, resp[q].kind, resp[q].exec)
    BY DEF ProvenanceInv, RespGood
  <1>2. PICK k0, e0 : k0 = resp[q].kind /\ e0 = resp[q].exec
    OBVIOUS
  <1>3. AnswerGood(q, k0, e0)' /\ pc'[q] = "done"
    BY <1>1, <1>2, AnswerPersists, Persist DEF ProvenanceInv
  <1>4. QED
    BY <1>2, <1>3 DEF AnswerGood

\* No step gives a wrong answer.
LEMMA RespGoodStep ==
    ASSUME TypeInv, ProvenanceInv, [Next]_vars
    PROVE  RespGood'
  <1>1. \A q \in Request : resp[q] # None => pc[q] = "done" /\ AnswerGood(q, resp[q].kind, resp[q].exec)
    BY DEF ProvenanceInv, RespGood
  <1>2. ASSUME NEW r \in Request, IdemGetFails(r) \/ Conflict(r) PROVE RespGood'
    BY <1>1, <1>2, AnswerStep DEF IdemGetFails, Conflict, AnswerGood
  <1>3. ASSUME NEW r \in Request, Replay(r) PROVE RespGood'
    <2>1. seen[r] \in Request /\ Keyed(r) /\ Good(seen[r], req[r].key)
      BY <1>3 DEF Replay, ProvenanceInv, SeenGood, TypeInv, TypeOK
    <2>2. SameHash(r, seen[r])
      BY <1>3 DEF Replay, HashConflict, SameHash
    <2>3. AnswerGood(r, "replayed", seen[r])
      BY <2>1, <2>2 DEF AnswerGood
    <2>4. QED
      BY <1>1, <1>3, <2>3, AnswerStep DEF Replay
  <1>4. ASSUME NEW r \in Request, Return(r) \/ StoreFails(r) \/ Respond(r) PROVE RespGood'
    BY <1>1, <1>4, AnswerStep DEF Return, StoreFails, Respond, AnswerGood
  <1>5. ASSUME NEW r \in Request, WaiterResume(r) PROVE RespGood'
    <2>1. AnswerGood(r, "shared", flight[r]) /\ AnswerGood(r, "error", flight[r])
      BY <1>5 DEF WaiterResume, ProvenanceInv, JoinGood, AnswerGood
    <2>2. QED
      BY <1>1, <1>5, <2>1, AnswerStep DEF WaiterResume
  <1>6. ASSUME NEW i \in Instance, Crash(i) PROVE RespGood'
    <2> SUFFICES ASSUME NEW q \in Request, resp'[q] # None
                 PROVE  (pc[q] = "done" /\ AnswerGood(q, resp[q].kind, resp[q].exec))'
      BY DEF RespGood
    <2>1. CASE pc[q] \notin {"idle", "done"} /\ req[q].inst = i
      BY <1>6, <2>1 DEF Crash, AnswerGood
    <2>2. CASE ~(pc[q] \notin {"idle", "done"} /\ req[q].inst = i)
      <3>1. resp'[q] = resp[q] /\ pc'[q] = pc[q]
        BY <1>6, <2>2 DEF Crash
      <3>2. pc[q] = "done" /\ AnswerGood(q, resp[q].kind, resp[q].exec)
        BY <1>1, <3>1
      <3>3. PICK k0, e0 : k0 = resp[q].kind /\ e0 = resp[q].exec
        OBVIOUS
      <3>4. AnswerGood(q, k0, e0)'
        BY <3>2, <3>3, AnswerPersists DEF ProvenanceInv
      <3>5. QED
        BY <3>1, <3>2, <3>3, <3>4 DEF AnswerGood
    <2>3. QED
      BY <2>1, <2>2
  <1>7. ASSUME UNCHANGED resp PROVE RespGood'
    BY <1>7, AnswerFrame
  <1>8. QED
    BY <1>2, <1>3, <1>4, <1>5, <1>6, <1>7, NextCases
       DEF vars, Arrive, IdemGet, Join, Execute, Reject, Lead, Settle, SettleRejected,
           Keep, StorePut, Expire

\* Every step keeps the provenance of answers and stored entries.
LEMMA ProvenanceStep ==
    ASSUME TypeInv, InflightExact, ProvenanceInv, [Next]_vars
    PROVE  ProvenanceInv'
  BY Persist, StoreGoodStep, SeenGoodStep, StoringGoodStep, JoinGoodStep, RespGoodStep
     DEF ProvenanceInv

\* Initially there is nothing to account for.
LEMMA ProvenanceInit == Init => ProvenanceInv
  BY NamesAssumption
     DEF Init, ProvenanceInv, OutcomeLate, StoreGood, SeenGood, StoringGood, JoinGood, RespGood

\* Every answer, and every entry a store holds or a lookup has returned, stems
\* from an execution that it is legal for.
THEOREM Provenance == Spec => [](TypeInv /\ InflightExact /\ ProvenanceInv)
  <1>1. Init => TypeInv /\ InflightExact /\ ProvenanceInv
    BY TypeInit, ProvenanceInit, NamesAssumption DEF Init, InflightExact, Open
  <1>2. TypeInv /\ InflightExact /\ ProvenanceInv /\ [Next]_vars
          => (TypeInv /\ InflightExact /\ ProvenanceInv)'
    BY TypeStep, FlightsStep, ProvenanceStep
  <1>3. QED
    BY <1>1, <1>2, PTL DEF Spec

\* Whoever is given somebody else's response asked for the same thing: the same
\* key and body, where both were hashed, or the same URL and process under
\* @SingleFlight.
THEOREM AnswersMatch == Spec => []AnswerMatchesRequest
  <1>1. TypeInv /\ ProvenanceInv => AnswerMatchesRequest
    <2> SUFFICES ASSUME TypeInv, ProvenanceInv, NEW r \in Request,
                        resp[r] # None, resp[r].exec # None, resp[r].exec # r,
                        NEW e, e = resp[r].exec
                 PROVE  IF resp[r].kind = "replayed" \/ ~SingleFlight
                          THEN /\ req[e].key = req[r].key
                               /\ HashOf(e) = HashOf(r) \/ (resp[r].kind = "replayed"
                                                             /\ NoHash \in {HashOf(r), HashOf(e)})
                          ELSE req[e].url = req[r].url /\ req[e].inst = req[r].inst
      BY DEF AnswerMatchesRequest
    <2>1. AnswerGood(r, resp[r].kind, e)
      BY DEF ProvenanceInv, RespGood
    <2>2. CASE resp[r].kind = "replayed"
      BY <2>1, <2>2 DEF AnswerGood, Good, SameHash
    <2>3. CASE resp[r].kind # "replayed"
      <3>1. Matches(r, e)
        BY <2>1, <2>3 DEF AnswerGood
      <3>2. QED
        BY <2>3, <3>1 DEF Matches, Deduped, DedupeKeyOf
    <2>4. QED
      BY <2>2, <2>3
  <1>2. QED
    BY <1>1, Provenance, PTL

\* Only a success is ever stored or replayed.
THEOREM SuccessReplayed == Spec => []OnlySuccessReplayed
  <1>1. TypeInv /\ ProvenanceInv => OnlySuccessReplayed
    <2> SUFFICES ASSUME TypeInv, ProvenanceInv PROVE OnlySuccessReplayed
      OBVIOUS
    <2>1. ASSUME NEW r \in Request, resp[r] # None, resp[r].kind = "replayed"
          PROVE  outcome[resp[r].exec] = "ok"
      BY <2>1 DEF ProvenanceInv, RespGood, AnswerGood, Good
    <2>2. ASSUME NEW s \in DOMAIN store, NEW k \in Key, store[s][k] # None
          PROVE  outcome[store[s][k]] = "ok"
      <3>1. s \in Instance \cup {SharedStore} /\ store[s][k] \in Request
        BY <2>2 DEF TypeInv, TypeOK
      <3>2. QED
        BY <3>1 DEF ProvenanceInv, StoreGood, Good
    <2>3. QED
      BY <2>1, <2>2 DEF OnlySuccessReplayed
  <1>2. QED
    BY <1>1, Provenance, PTL

-----------------------------------------------------------------------------
(* What was acknowledged is stored. *)

\* No entry was lost so far.
Kept == expiries = 0 /\ (RemoteStore \/ crashes = 0)

\* A lookup that found an entry and a write that took effect answer for the
\* acknowledgement that follows.
AckInv ==
    Kept => /\ \A r \in Request : seen[r] # None => StoredFor(r) # None
            /\ \A r \in Request : pc[r] = "stored" => StoredFor(r) # None
            /\ AcknowledgedIsStored

\* A write leaves an entry wherever there was one, and its own.
LEMMA PutStays ==
    ASSUME TypeInv, NEW r \in Request, pc[r] # "idle", Keyed(r), PutEntry(r), UNCHANGED req
    PROVE  /\ StoredFor(r)' # None
           /\ \A q \in Request :
                pc[q] # "idle" /\ Keyed(q) /\ StoredFor(q) # None => StoredFor(q)' # None
  <1>1. \A q \in Request : pc[q] # "idle" /\ Keyed(q) =>
            StoreOf(req[q].inst) \in Instance \cup {SharedStore} /\ req[q].key \in Key
    BY InstType DEF TypeInv, StoreOf, Keyed, RequestInfo
  <1>2. store \in [Instance \cup {SharedStore} -> [Key -> Request \cup {None}]]
    BY DEF TypeInv, TypeOK
  <1> DEFINE s0 == StoreOf(req[r].inst)
             k0 == req[r].key
  <1>3. store' = [store EXCEPT ![s0][k0] = r] /\ s0 \in Instance \cup {SharedStore} /\ k0 \in Key
    BY <1>1 DEF PutEntry
  <1> HIDE DEF s0, k0
  <1>4. /\ store'[s0][k0] = r
        /\ \A s \in Instance \cup {SharedStore}, k \in Key : store[s][k] # None => store'[s][k] # None
    BY <1>2, <1>3, NamesAssumption
  <1>5. \A q \in Request : StoreOf(req[q].inst)' = StoreOf(req[q].inst) /\ req'[q].key = req[q].key
    BY DEF StoreOf
  <1>6. StoredFor(r)' = r
    BY <1>4, <1>5 DEF s0, k0, StoredFor
  <1>7. ASSUME NEW q \in Request, pc[q] # "idle", Keyed(q), StoredFor(q) # None
        PROVE  StoredFor(q)' # None
    <2>1. store[StoreOf(req[q].inst)][req[q].key] # None
      BY <1>7 DEF StoredFor
    <2>2. store'[StoreOf(req[q].inst)][req[q].key] # None
      BY <2>1, <1>1, <1>4, <1>7
    <2>3. QED
      BY <2>2, <1>5 DEF StoredFor
  <1>8. QED
    BY <1>6, <1>7, NamesAssumption

\* As long as no entry is lost, every key that is answered goes on being answered.
LEMMA EntriesStay ==
    ASSUME TypeInv, ProvenanceInv, [Next]_vars, Kept'
    PROVE  /\ Kept
           /\ \A q \in Request :
                pc[q] # "idle" /\ Keyed(q) /\ StoredFor(q) # None => StoredFor(q)' # None
  <1> DEFINE Stay == \A q \in Request :
                pc[q] # "idle" /\ Keyed(q) /\ StoredFor(q) # None => StoredFor(q)' # None
  <1>1. \A q \in Request : pc[q] # "idle" => req'[q] = req[q]
    BY Persist DEF ProvenanceInv
  <1>2. CASE UNCHANGED <<store, expiries, crashes>>
    <2>1. \A q \in Request : pc[q] # "idle" => StoredFor(q)' = StoredFor(q)
      BY <1>1, <1>2 DEF StoredFor, StoreOf
    <2>2. QED
      BY <1>2, <2>1 DEF Kept
  <1>3. ASSUME NEW r \in Request, Keep(r) \/ StorePut(r) PROVE Kept /\ Stay
    <2>1. CASE UNCHANGED store
      BY <2>1, <1>2, <1>3 DEF Keep, StorePut
    <2>2. CASE PutEntry(r)
      <3>1. pc[r] # "idle" /\ Keyed(r) /\ UNCHANGED <<req, expiries, crashes>>
        BY <1>3 DEF Keep, StorePut, Storable, ProvenanceInv, StoringGood, Good
      <3>2. QED
        BY <2>2, <3>1, PutStays DEF Kept
    <2>3. QED
      BY <1>3, <2>1, <2>2 DEF Keep, StorePut
  <1>4. ASSUME NEW i \in Instance, Crash(i) PROVE Kept /\ Stay
    <2>1. RemoteStore
      BY <1>4 DEF Kept, Crash, TypeInv, TypeOK
    <2>2. store'[SharedStore] = store[SharedStore]
      BY <1>4, NamesAssumption DEF Crash, TypeInv, TypeOK
    <2>3. \A q \in Request : pc[q] # "idle" => StoredFor(q)' = StoredFor(q)
      BY <2>1, <2>2, <1>1 DEF StoredFor, StoreOf
    <2>4. QED
      BY <1>4, <2>1, <2>3 DEF Kept, Crash
  <1>5. ASSUME NEW s \in Instance \cup {SharedStore}, NEW k \in Key, Expire(s, k) PROVE FALSE
    BY <1>5 DEF Kept, Expire, TypeInv, TypeOK
  <1>6. CASE UNCHANGED vars
    BY <1>6, <1>2 DEF vars
  <1>7. ASSUME NEW r \in Request,
               \/ Arrive(r) \/ IdemGet(r) \/ Conflict(r) \/ Replay(r)
               \/ Join(r) \/ Execute(r) \/ Reject(r) \/ Settle(r) \/ SettleRejected(r)
               \/ Return(r) \/ Respond(r) \/ WaiterResume(r) \/ IdemGetFails(r) \/ StoreFails(r)
        PROVE  UNCHANGED <<store, expiries, crashes>>
    BY <1>7 DEF Arrive, IdemGet, Conflict, Replay, Join, Execute, Reject, Lead, Settle,
                SettleRejected, Return, Respond, WaiterResume, IdemGetFails, StoreFails
  <1>8. QED
    BY <1>2, <1>3, <1>4, <1>5, <1>6, <1>7, NextCases

\* What a request that is answered now was given is in the store.
LEMMA AckedNow ==
    ASSUME TypeInv, ProvenanceInv, AckInv, Kept, [Next]_vars,
           NEW r \in Request, resp'[r] # resp[r], resp'[r] # None,
           resp'[r].kind \in {"fresh", "replayed"}, Keyed(r), outcome'[resp'[r].exec] = "ok"
    PROVE  pc[r] # "idle" /\ StoredFor(r) # None
  <1> USE DEF Reply, Goto
  <1> pc \in [Request -> Phase] /\ resp \in [Request -> Answer \cup {None}]
    BY DEF TypeInv, TypeOK
  <1>1. CASE UNCHANGED vars
    BY <1>1 DEF vars
  <1>2. ASSUME NEW q \in Request, Replay(q) PROVE pc[r] # "idle" /\ StoredFor(r) # None
    BY <1>2 DEF Replay, AckInv
  <1>3. ASSUME NEW q \in Request, Return(q) PROVE FALSE
    <2>1. q = r /\ ~Storable(r) /\ UNCHANGED outcome
      BY <1>3 DEF Return
    <2>2. resp'[r].exec = r
      BY <1>3, <2>1 DEF Return
    <2>3. QED
      BY <2>1, <2>2 DEF Storable
  <1>4. ASSUME NEW q \in Request, Respond(q) PROVE pc[r] # "idle" /\ StoredFor(r) # None
    BY <1>4 DEF Respond, AckInv
  <1>5. ASSUME NEW q \in Request,
               IdemGetFails(q) \/ Conflict(q) \/ StoreFails(q) \/ WaiterResume(q)
        PROVE  FALSE
    BY <1>5 DEF IdemGetFails, Conflict, StoreFails, WaiterResume
  <1>6. ASSUME NEW i \in Instance, Crash(i) PROVE FALSE
    BY <1>6 DEF Crash
  <1>7. ASSUME NEW q \in Request,
               \/ Arrive(q) \/ IdemGet(q) \/ Join(q) \/ Execute(q) \/ Reject(q) \/ Settle(q)
               \/ SettleRejected(q) \/ Keep(q) \/ StorePut(q)
        PROVE  FALSE
    BY <1>7 DEF Arrive, IdemGet, Join, Execute, Reject, Lead, Settle, SettleRejected, Keep, StorePut
  <1>8. ASSUME NEW s \in Instance \cup {SharedStore}, NEW k \in Key, Expire(s, k) PROVE FALSE
    BY <1>8 DEF Expire
  <1>9. QED
    BY <1>1, <1>2, <1>3, <1>4, <1>5, <1>6, <1>7, <1>8, NextCases

\* Only the request itself is answered with its fresh response.
FreshIsOwn == \A r \in Request : resp[r] # None /\ resp[r].kind = "fresh" => resp[r].exec = r

\* A step that answers a request, by its kind; the others leave the answers.
LEMMA FreshStep ==
    ASSUME TypeInv, FreshIsOwn, [Next]_vars
    PROVE  FreshIsOwn'
  <1> USE DEF FreshIsOwn, Reply
  <1> resp \in [Request -> Answer \cup {None}]
    BY DEF TypeInv, TypeOK
  <1>1. ASSUME NEW r \in Request,
               IdemGetFails(r) \/ Conflict(r) \/ Replay(r) \/ WaiterResume(r)
        PROVE  FreshIsOwn'
    BY <1>1 DEF IdemGetFails, Conflict, Replay, WaiterResume
  <1>2. ASSUME NEW r \in Request, Return(r) \/ StoreFails(r) \/ Respond(r)
        PROVE  FreshIsOwn'
    BY <1>2 DEF Return, StoreFails, Respond
  <1>3. ASSUME NEW i \in Instance, Crash(i) PROVE FreshIsOwn'
    BY <1>3 DEF Crash
  <1>4. CASE UNCHANGED resp
    BY <1>4
  <1>5. QED
    BY <1>1, <1>2, <1>3, <1>4, NextCases
       DEF vars, Arrive, IdemGet, Join, Execute, Reject, Lead, Settle, SettleRejected, Keep,
           StorePut, Expire

\* The outcome of an execution is decided while its request is under way.
LEMMA DoneIsSettled ==
    ASSUME TypeInv, [Next]_vars, NEW q \in Request, pc[q] = "done"
    PROVE  outcome'[q] = outcome[q]
  <1> outcome \in [Request -> Outcome \cup {None}]
    BY DEF TypeInv, TypeOK
  <1>1. CASE UNCHANGED outcome
    BY <1>1
  <1>2. ASSUME NEW r \in Request, Settle(r) \/ SettleRejected(r) PROVE outcome'[q] = outcome[q]
    BY <1>2 DEF Settle, SettleRejected
  <1>3. QED
    BY <1>1, <1>2, NextCases
       DEF vars, Arrive, IdemGet, Conflict, Replay, Join, Execute, Reject, Lead, Return, Keep,
           StorePut, Respond, WaiterResume, IdemGetFails, StoreFails, Crash, Expire

\* A request whose entry is written came there with the write.
LEMMA StoredNow ==
    ASSUME TypeInv, [Next]_vars, NEW r \in Request, pc[r] # "stored", pc'[r] = "stored"
    PROVE  Keep(r) \/ StorePut(r)
  <1> USE DEF Goto, Reply
  <1> pc \in [Request -> Phase]
    BY DEF TypeInv, TypeOK
  <1>1. ASSUME NEW q \in Request,
               \/ Arrive(q) \/ IdemGet(q) \/ Conflict(q) \/ Replay(q) \/ Join(q) \/ Execute(q)
               \/ Reject(q) \/ Settle(q) \/ SettleRejected(q)
        PROVE  FALSE
    BY <1>1 DEF Arrive, IdemGet, Conflict, Replay, Join, Execute, Reject, Settle, SettleRejected
  <1>2. ASSUME NEW q \in Request,
               Return(q) \/ Respond(q) \/ WaiterResume(q) \/ IdemGetFails(q) \/ StoreFails(q)
        PROVE  FALSE
    BY <1>2 DEF Return, Respond, WaiterResume, IdemGetFails, StoreFails
  <1>3. ASSUME NEW q \in Request, Keep(q) \/ StorePut(q) PROVE q = r
    BY <1>3 DEF Keep, StorePut
  <1>4. ASSUME NEW i \in Instance, Crash(i) PROVE FALSE
    BY <1>4 DEF Crash
  <1>5. QED
    BY <1>1, <1>2, <1>3, <1>4, NextCases DEF vars, Expire

\* What the lookups found, the writes stored and the answers acknowledged stays.
LEMMA AckStep ==
    ASSUME TypeInv, ProvenanceInv, FreshIsOwn, AckInv, [Next]_vars
    PROVE  AckInv'
  <1> SUFFICES ASSUME Kept' PROVE /\ \A r \in Request : seen'[r] # None => StoredFor(r)' # None
                                  /\ \A r \in Request : pc'[r] = "stored" => StoredFor(r)' # None
                                  /\ AcknowledgedIsStored'
    BY DEF AckInv
  <1>1. /\ Kept
        /\ \A q \in Request : pc[q] # "idle" /\ Keyed(q) /\ StoredFor(q) # None => StoredFor(q)' # None
    BY EntriesStay
  <1>2. /\ \A q \in Request : pc[q] # "idle" => req'[q] = req[q]
        /\ \A q \in Request : outcome[q] # None => outcome'[q] = outcome[q]
    BY Persist DEF ProvenanceInv
  <1> pc \in [Request -> Phase] /\ seen \in [Request -> Request \cup {None}]
      /\ resp \in [Request -> Answer \cup {None}]
    BY DEF TypeInv, TypeOK
  <1>3. ASSUME NEW r \in Request, seen'[r] # None PROVE StoredFor(r)' # None
    <2>1. CASE seen'[r] = seen[r]
      <3>1. pc[r] # "idle" /\ Keyed(r) /\ StoredFor(r) # None
        BY <2>1, <1>3, <1>1 DEF AckInv, ProvenanceInv, SeenGood
      <3>2. QED
        BY <3>1, <1>1
    <2>2. CASE seen'[r] # seen[r]
      <3>1. IdemGet(r)
        BY <2>2, NextCases DEF vars, Arrive, IdemGet, Conflict, Replay, Join, Execute, Reject, Lead,
           Settle, SettleRejected, Return, Keep, StorePut, Respond, WaiterResume, IdemGetFails,
           StoreFails, Crash, Expire
      <3>2. UNCHANGED <<store, req>> /\ seen'[r] = StoredFor(r)
        BY <3>1 DEF IdemGet
      <3>3. QED
        BY <3>2, <1>3 DEF StoredFor, StoreOf
    <2>3. QED
      BY <2>1, <2>2
  <1>4. ASSUME NEW r \in Request, pc'[r] = "stored" PROVE StoredFor(r)' # None
    <2>1. CASE pc[r] = "stored"
      <3>1. Keyed(r) /\ StoredFor(r) # None
        BY <2>1, <1>1 DEF AckInv, ProvenanceInv, StoringGood, Good
      <3>2. QED
        BY <2>1, <3>1, <1>1
    <2>2. CASE pc[r] # "stored"
      <3>1. Keep(r) \/ StorePut(r)
        BY <1>4, <2>2, StoredNow
      <3>2. PutEntry(r) /\ UNCHANGED req /\ pc[r] # "idle" /\ Keyed(r)
        BY <1>4, <3>1 DEF Keep, StorePut, Goto, Storable, ProvenanceInv, StoringGood, Good
      <3>3. QED
        BY <3>2, PutStays
    <2>3. QED
      BY <2>1, <2>2
  <1>5. ASSUME NEW r \in Request, resp'[r] # None, resp'[r].kind \in {"fresh", "replayed"},
               Keyed(r)', outcome'[resp'[r].exec] = "ok"
        PROVE  StoredFor(r)' # None
    <2>1. CASE resp'[r] = resp[r]
      <3>1. pc[r] = "done" /\ Keyed(r)
        BY <2>1, <1>2, <1>5, SameData DEF ProvenanceInv, RespGood
      <3>2. outcome[resp[r].exec] = "ok"
        <4>1. CASE resp[r].kind = "fresh"
          BY <4>1, <2>1, <1>5, <3>1, DoneIsSettled DEF FreshIsOwn
        <4>2. CASE resp[r].kind = "replayed"
          BY <4>2, <2>1, <1>5 DEF ProvenanceInv, RespGood, AnswerGood, Good
        <4>3. QED
          BY <4>1, <4>2, <2>1, <1>5
      <3>3. QED
        BY <2>1, <3>1, <3>2, <1>1, <1>5 DEF AckInv, AcknowledgedIsStored, Kept
    <2>2. CASE resp'[r] # resp[r]
      <3>1. pc[r] # "idle"
        BY <2>2, NextCases DEF vars, Arrive, IdemGet, Conflict, Replay, Join, Execute, Reject, Lead,
           Settle, SettleRejected, Return, Keep, StorePut, Respond, WaiterResume, IdemGetFails,
           StoreFails, Crash, Expire, Reply, CanDispatch
      <3>2. Keyed(r)
        BY <3>1, <1>2, <1>5, SameData
      <3>3. StoredFor(r) # None
        BY <2>2, <3>2, <1>1, <1>5, AckedNow
      <3>4. QED
        BY <3>1, <3>2, <3>3, <1>1
    <2>3. QED
      BY <2>1, <2>2
  <1>6. QED
    BY <1>3, <1>4, <1>5 DEF AcknowledgedIsStored

\* No 2xx that was acknowledged under a key is forgotten, on any number of
\* processes, unless an entry expires or dies with the process that kept it.
THEOREM AckedIsStored == Spec => []AcknowledgedIsStored
  <1>1. Init => AckInv
    BY DEF Init, AckInv, AcknowledgedIsStored
  <1>2. Init => FreshIsOwn
    BY DEF Init, FreshIsOwn
  <1>3. AckInv => AcknowledgedIsStored
    BY DEF AckInv, AcknowledgedIsStored, Kept
  <1>4. QED
    BY <1>1, <1>2, <1>3, FreshStep, AckStep, Provenance, PTL DEF Spec

-----------------------------------------------------------------------------
(* The bulkhead. *)

\* The process has answered a 503.
Refused(i) == \E r \in Request : outcome[r] = "busy" /\ req[r].inst = i

\* The count is exact until the first 503, whose `finally` gives back a slot that
\* was not taken; after it the count can only be too low.
SlotInv ==
    \A i \in Instance :
        /\ IsFiniteSet(Running(i)) /\ slots[i] <= Cardinality(Running(i))
        /\ ~Bulkhead => slots[i] = 0
        /\ Bulkhead /\ ~Refused(i) =>
              slots[i] = Cardinality(Running(i)) /\ slots[i] <= MaxConcurrent

\* Which executions are running changes only in three ways.
LEMMA RunningMoves ==
    ASSUME TypeInv, NEW i \in Instance
    PROVE  /\ \A r \in Request : Execute(r) =>
                /\ r \notin Running(i)
                /\ Running(i)' = IF req[r].inst = i THEN Running(i) \cup {r} ELSE Running(i)
           /\ \A r \in Request : Settle(r) =>
                /\ r \in Running(req[r].inst)
                /\ Running(i)' = IF req[r].inst = i THEN Running(i) \ {r} ELSE Running(i)
           /\ \A j \in Instance : Crash(j) =>
                Running(i)' = IF j = i THEN {} ELSE Running(i)
  <1> pc \in [Request -> Phase]
    BY DEF TypeInv, TypeOK
  <1>1. ASSUME NEW r \in Request, Execute(r)
        PROVE  /\ r \notin Running(i)
               /\ Running(i)' = IF req[r].inst = i THEN Running(i) \cup {r} ELSE Running(i)
    BY <1>1 DEF Running, Execute, Lead, CanDispatch, Goto
  <1>2. ASSUME NEW r \in Request, Settle(r)
        PROVE  /\ r \in Running(req[r].inst)
               /\ Running(i)' = IF req[r].inst = i THEN Running(i) \ {r} ELSE Running(i)
    BY <1>2 DEF Running, Settle, Goto
  <1>3. ASSUME NEW j \in Instance, Crash(j)
        PROVE  Running(i)' = IF j = i THEN {} ELSE Running(i)
    BY <1>3 DEF Running, Crash
  <1>4. QED
    BY <1>1, <1>2, <1>3

\* The other steps start and end no execution that holds the route.
LEMMA RunningStays ==
    ASSUME TypeInv, NEW i \in Instance, [Next]_vars,
           \A r \in Request : ~Execute(r) /\ ~Settle(r),
           \A j \in Instance : ~Crash(j)
    PROVE  /\ Running(i)' = Running(i)
           /\ slots'[i] = slots[i] \/ \E r \in Request : SettleRejected(r)
  <1> pc \in [Request -> Phase]
    BY DEF TypeInv, TypeOK
  <1> USE DEF Running, Goto, Reply
  <1>1. CASE UNCHANGED vars
    BY <1>1 DEF vars
  <1>2. ASSUME NEW r \in Request, Arrive(r) PROVE Running(i)' = Running(i) /\ slots' = slots
    BY <1>2 DEF Arrive
  <1>3. ASSUME NEW r \in Request,
               \/ IdemGet(r) \/ IdemGetFails(r) \/ Conflict(r) \/ Replay(r) \/ Join(r) \/ Reject(r)
        PROVE  Running(i)' = Running(i) /\ slots' = slots
    BY <1>3 DEF IdemGet, IdemGetFails, Conflict, Replay, Join, Reject, Lead, CanDispatch
  <1>4. ASSUME NEW r \in Request, SettleRejected(r) PROVE Running(i)' = Running(i)
    BY <1>4 DEF SettleRejected
  <1>5. ASSUME NEW r \in Request,
               \/ Return(r) \/ Keep(r) \/ StorePut(r) \/ Respond(r) \/ WaiterResume(r) \/ StoreFails(r)
        PROVE  Running(i)' = Running(i) /\ slots' = slots
    BY <1>5 DEF Return, Keep, StorePut, Respond, WaiterResume, StoreFails
  <1>6. ASSUME NEW s \in Instance \cup {SharedStore}, NEW k \in Key, Expire(s, k)
        PROVE  Running(i)' = Running(i) /\ slots' = slots
    BY <1>6 DEF Expire
  <1>7. QED
    BY <1>1, <1>2, <1>3, <1>4, <1>5, <1>6, NextCases

\* A 503 is not taken back.
LEMMA RefusedStays ==
    ASSUME TypeInv, OutcomeLate, [Next]_vars, NEW i \in Instance, Refused(i)
    PROVE  Refused(i)'
  <1>1. PICK r \in Request : outcome[r] = "busy" /\ req[r].inst = i
    BY DEF Refused
  <1>2. pc[r] # "idle" /\ outcome[r] # None
    BY <1>1, NamesAssumption DEF OutcomeLate
  <1>3. QED
    BY <1>1, <1>2, Persist DEF Refused

\* Executions and the rejected ones keep the count, or make it too low.
LEMMA SlotStep ==
    ASSUME TypeInv, OutcomeLate, SlotInv, [Next]_vars
    PROVE  SlotInv'
  <1> SUFFICES ASSUME NEW i \in Instance
               PROVE  /\ IsFiniteSet(Running(i)') /\ slots'[i] <= Cardinality(Running(i)')
                      /\ ~Bulkhead => slots'[i] = 0
                      /\ Bulkhead /\ ~Refused(i)' =>
                            slots'[i] = Cardinality(Running(i)') /\ slots'[i] <= MaxConcurrent
    BY DEF SlotInv
  <1>1. /\ IsFiniteSet(Running(i)) /\ slots[i] <= Cardinality(Running(i))
        /\ ~Bulkhead => slots[i] = 0
        /\ Bulkhead /\ ~Refused(i) =>
              slots[i] = Cardinality(Running(i)) /\ slots[i] <= MaxConcurrent
    BY DEF SlotInv
  <1>2. ~Refused(i)' => ~Refused(i)
    BY RefusedStays
  <1>3. slots \in [Instance -> Int] /\ Cardinality(Running(i)) \in Nat /\ MaxConcurrent \in Nat
    BY <1>1, FS_CardinalityType, ConfigAssumption DEF TypeInv, TypeOK
  <1>4. ASSUME NEW r \in Request, Execute(r), req[r].inst = i
        PROVE  /\ IsFiniteSet(Running(i)') /\ slots'[i] <= Cardinality(Running(i)')
               /\ ~Bulkhead => slots'[i] = 0
               /\ Bulkhead /\ ~Refused(i)' =>
                     slots'[i] = Cardinality(Running(i)') /\ slots'[i] <= MaxConcurrent
    <2>1. Running(i)' = Running(i) \cup {r} /\ r \notin Running(i)
      BY <1>4, RunningMoves
    <2>2. IsFiniteSet(Running(i)') /\ Cardinality(Running(i)') = Cardinality(Running(i)) + 1
      BY <2>1, <1>1, FS_AddElement
    <2>3. slots'[i] = IF Bulkhead THEN slots[i] + 1 ELSE slots[i]
      BY <1>3, <1>4 DEF Execute
    <2>4. Bulkhead => slots[i] < MaxConcurrent
      BY <1>3, <1>4 DEF Execute, Saturated
    <2>5. QED
      BY <2>2, <2>3, <2>4, <1>1, <1>2, <1>3
  <1>5. ASSUME NEW r \in Request, Settle(r), req[r].inst = i
        PROVE  /\ IsFiniteSet(Running(i)') /\ slots'[i] <= Cardinality(Running(i)')
               /\ ~Bulkhead => slots'[i] = 0
               /\ Bulkhead /\ ~Refused(i)' =>
                     slots'[i] = Cardinality(Running(i)') /\ slots'[i] <= MaxConcurrent
    <2>1. Running(i)' = Running(i) \ {r} /\ r \in Running(i)
      BY <1>5, RunningMoves
    <2>2. IsFiniteSet(Running(i)') /\ Cardinality(Running(i)') = Cardinality(Running(i)) - 1
      BY <2>1, <1>1, FS_RemoveElement
    <2>3. slots'[i] = IF Bulkhead THEN slots[i] - 1 ELSE slots[i]
      BY <1>3, <1>5 DEF Settle, Release
    <2>4. Cardinality(Running(i)') \in Nat
      BY <2>2, FS_CardinalityType
    <2>5. QED
      BY <2>2, <2>3, <2>4, <1>1, <1>2, <1>3
  <1>6. ASSUME NEW r \in Request, SettleRejected(r)
        PROVE  /\ IsFiniteSet(Running(i)') /\ slots'[i] <= Cardinality(Running(i)')
               /\ ~Bulkhead => slots'[i] = 0
               /\ Bulkhead /\ ~Refused(i)' =>
                     slots'[i] = Cardinality(Running(i)') /\ slots'[i] <= MaxConcurrent
    <2>1. Running(i)' = Running(i)
      BY <1>6 DEF SettleRejected, Running, Goto, TypeInv, TypeOK
    <2>2. slots'[i] = IF Bulkhead /\ req[r].inst = i THEN slots[i] - 1 ELSE slots[i]
      BY <1>3, <1>6 DEF SettleRejected, Release
    <2>3. req[r].inst = i => Refused(i)'
      BY <1>6 DEF SettleRejected, Refused, TypeInv, TypeOK
    <2>4. QED
      BY <2>1, <2>2, <2>3, <1>1, <1>2, <1>3
  <1>7. ASSUME Crash(i)
        PROVE  /\ IsFiniteSet(Running(i)') /\ slots'[i] <= Cardinality(Running(i)')
               /\ ~Bulkhead => slots'[i] = 0
               /\ Bulkhead /\ ~Refused(i)' =>
                     slots'[i] = Cardinality(Running(i)') /\ slots'[i] <= MaxConcurrent
    <2>1. Running(i)' = {} /\ slots'[i] = 0
      BY <1>3, <1>7, RunningMoves DEF Crash
    <2>2. QED
      BY <2>1, <1>3, FS_EmptySet
  <1>8. CASE Running(i)' = Running(i) /\ slots'[i] = slots[i]
    BY <1>8, <1>1, <1>2
  <1>9. ASSUME NEW r \in Request, Execute(r) \/ Settle(r), req[r].inst # i
        PROVE  Running(i)' = Running(i) /\ slots'[i] = slots[i]
    BY <1>3, <1>9, RunningMoves DEF Execute, Settle, Release
  <1>10. ASSUME NEW j \in Instance, Crash(j), j # i
         PROVE  Running(i)' = Running(i) /\ slots'[i] = slots[i]
    <2>1. Running(i)' = Running(i)
      BY <1>10, RunningMoves
    <2>2. slots'[i] = slots[i]
      BY <1>3, <1>10 DEF Crash
    <2>3. QED
      BY <2>1, <2>2
  <1>11. QED
    BY <1>4, <1>5, <1>6, <1>7, <1>8, <1>9, <1>10, RunningStays

\* The count never says more than what is running.
LEMMA SlotsCounted == Spec => []SlotInv
  <1>1. Init => SlotInv
    <2> SUFFICES ASSUME Init, NEW i \in Instance
                 PROVE  /\ IsFiniteSet(Running(i)) /\ slots[i] <= Cardinality(Running(i))
                        /\ slots[i] = Cardinality(Running(i)) /\ slots[i] <= MaxConcurrent
                        /\ slots[i] = 0
      BY DEF SlotInv
    <2>1. Running(i) = {} /\ slots[i] = 0
      BY DEF Init, Running
    <2>2. QED
      BY <2>1, FS_EmptySet, ConfigAssumption
  <1>2. ProvenanceInv => OutcomeLate
    BY DEF ProvenanceInv
  <1>3. QED
    BY <1>1, <1>2, SlotStep, Provenance, PTL DEF Spec

\* However many requests, processes and crashes, @Concurrency loses no capacity.
THEOREM NoLeak == Spec => []NoSlotLeak
  <1>1. SlotInv => NoSlotLeak
    BY DEF SlotInv, NoSlotLeak
  <1>2. QED
    BY <1>1, SlotsCounted, PTL

\* @Concurrency caps the executions of a process until it answers a 503.
THEOREM CapHolds == Spec => []CapUntilFirstRejection
  <1>1. SlotInv => CapUntilFirstRejection
    BY DEF SlotInv, CapUntilFirstRejection, Refused
  <1>2. QED
    BY <1>1, SlotsCounted, PTL

\* A failure is shared with concurrent callers only, never with a later retry.
THEOREM JoinsOpenOnly == Spec => NoLateJoin
  <1>1. ASSUME TypeInv, InflightExact, [Next]_vars, NEW r \in Request,
               pc[r] # "waiting", pc'[r] = "waiting"
        PROVE  Open(flight'[r])
    <2> pc \in [Request -> Phase] /\ flight \in [Request -> Request \cup {None}]
      BY <1>1 DEF TypeInv, TypeOK
    <2>1. ASSUME NEW q \in Request,
                 \/ Arrive(q) \/ IdemGet(q) \/ Conflict(q) \/ Replay(q) \/ Execute(q)
                 \/ Reject(q) \/ Settle(q) \/ SettleRejected(q) \/ Return(q) \/ Keep(q)
          PROVE  FALSE
      BY <1>1, <2>1 DEF Goto, Reply, Arrive, IdemGet, Conflict, Replay, Execute, Reject, Settle,
                 SettleRejected, Return, Keep
    <2>2. ASSUME NEW q \in Request,
                 \/ StorePut(q) \/ Respond(q) \/ WaiterResume(q) \/ IdemGetFails(q) \/ StoreFails(q)
          PROVE  FALSE
      BY <1>1, <2>2 DEF Goto, Reply, StorePut, Respond, WaiterResume, IdemGetFails, StoreFails
    <2>3. ASSUME NEW i \in Instance, Crash(i) PROVE FALSE
      BY <1>1, <2>3 DEF Crash
    <2>4. Join(r)
      <3>1. ASSUME NEW q \in Request, Join(q) PROVE q = r
        BY <1>1, <3>1 DEF Join, Goto
      <3>2. QED
        BY <1>1, <2>1, <2>2, <2>3, <3>1, NextCases DEF vars, Expire
    <2>5. flight'[r] = FlightOf(r) /\ FlightOf(r) # None /\ Deduped(r) /\ pc[r] # "idle"
      BY <2>4 DEF Join, CanDispatch
    <2>6. FlightOf(r) \in Request
      BY <1>1, <2>5, InstType, DedupeKeyType DEF FlightOf, TypeInv, TypeOK
    <2>7. req[r].inst \in Instance /\ DedupeKeyOf(r) \in DedupeKey
      BY <1>1, <2>5, InstType, DedupeKeyType DEF TypeInv
    <2>8. QED
      BY <1>1, <2>5, <2>6, <2>7 DEF InflightExact, FlightOf
  <1>2. TypeInv /\ InflightExact /\ [Next]_vars
          => [\A r \in Request : pc[r] # "waiting" /\ pc'[r] = "waiting" => Open(flight'[r])]_vars
    BY <1>1
  <1>3. QED
    BY <1>2, Provenance, PTL DEF Spec, NoLateJoin

-----------------------------------------------------------------------------
(* The handler implements SharedExecution. *)

Over == {"storing", "stored", "done"}

\* What a store holds, and what a lookup has found, is no longer open.
EntriesOver ==
    /\ \A s \in Instance \cup {SharedStore}, k \in Key, e \in Request : store[s][k] = e => pc[e] \in Over
    /\ \A r, e \in Request : seen[r] = e => pc[e] \in Over

\* An execution that is over stays so.
LEMMA OverStays ==
    ASSUME TypeInv, [Next]_vars, NEW e \in Request, pc[e] \in Over
    PROVE  pc'[e] \in Over
  <1> pc \in [Request -> Phase]
    BY DEF TypeInv, TypeOK
  <1> USE DEF Goto, Reply, Over
  <1>1. CASE UNCHANGED pc
    BY <1>1
  <1>2. ASSUME NEW r \in Request,
               \/ Arrive(r) \/ IdemGet(r) \/ Conflict(r) \/ Replay(r) \/ Join(r) \/ Execute(r)
               \/ Reject(r) \/ Settle(r) \/ SettleRejected(r)
        PROVE  pc'[e] \in Over
    BY <1>2 DEF Arrive, IdemGet, Conflict, Replay, Join, Execute, Reject, Lead, CanDispatch,
                Settle, SettleRejected
  <1>3. ASSUME NEW r \in Request,
               \/ Return(r) \/ Keep(r) \/ StorePut(r) \/ Respond(r) \/ WaiterResume(r)
               \/ IdemGetFails(r) \/ StoreFails(r)
        PROVE  pc'[e] \in Over
    BY <1>3 DEF Return, Keep, StorePut, Respond, WaiterResume, IdemGetFails, StoreFails
  <1>4. ASSUME NEW i \in Instance, Crash(i) PROVE pc'[e] \in Over
    BY <1>4 DEF Crash
  <1>5. QED
    BY <1>1, <1>2, <1>3, <1>4, NextCases DEF vars, Expire

\* An entry is written by an execution that is over.
LEMMA EntriesOverStep ==
    ASSUME TypeInv, ProvenanceInv, EntriesOver, [Next]_vars
    PROVE  EntriesOver'
  <1> pc \in [Request -> Phase] /\ seen \in [Request -> Request \cup {None}]
      /\ store \in [Instance \cup {SharedStore} -> [Key -> Request \cup {None}]]
    BY DEF TypeInv, TypeOK
  <1>1. ASSUME NEW s \in Instance \cup {SharedStore}, NEW k \in Key, NEW e \in Request,
               store'[s][k] = e
        PROVE  pc'[e] \in Over
    <2>1. CASE store[s][k] = e
      BY <2>1, OverStays DEF EntriesOver
    <2>2. CASE store[s][k] # e
      <3>1. ASSUME NEW r \in Request, Keep(r) \/ StorePut(r) PROVE pc'[e] \in Over
        <4>1. pc[r] # "idle" /\ Keyed(r)
          BY <3>1 DEF Keep, StorePut, Storable, ProvenanceInv, StoringGood, Good
        <4>2. StoreOf(req[r].inst) \in Instance \cup {SharedStore} /\ req[r].key \in Key
          BY <4>1, InstType DEF TypeInv, StoreOf, Keyed, RequestInfo
        <4>3. PutEntry(r) /\ pc'[r] = "stored"
          BY <2>2, <1>1, <3>1 DEF Keep, StorePut, Goto
        <4>4. r = e
          BY <2>2, <1>1, <4>2, <4>3 DEF PutEntry
        <4>5. QED
          BY <4>3, <4>4 DEF Over
      <3>2. ASSUME NEW i \in Instance, Crash(i) PROVE FALSE
        BY <2>2, <1>1, <3>2, NamesAssumption DEF Crash
      <3>3. ASSUME NEW t \in Instance \cup {SharedStore}, NEW l \in Key, Expire(t, l) PROVE FALSE
        BY <2>2, <1>1, <3>3, NamesAssumption DEF Expire
      <3>4. CASE UNCHANGED store
        BY <2>2, <1>1, <3>4
      <3>5. QED
        BY <3>1, <3>2, <3>3, <3>4, NextCases
           DEF vars, Arrive, IdemGet, Conflict, Replay, Join, Execute, Reject, Lead, Settle,
               SettleRejected, Return, Respond, WaiterResume, IdemGetFails, StoreFails
    <2>3. QED
      BY <2>1, <2>2
  <1>2. ASSUME NEW r \in Request, NEW e \in Request, seen'[r] = e PROVE pc'[e] \in Over
    <2>1. CASE seen[r] = e
      BY <2>1, OverStays DEF EntriesOver
    <2>2. CASE seen[r] # e
      <3>1. IdemGet(r)
        BY <2>2, <1>2, NextCases DEF vars, Arrive, IdemGet, Conflict, Replay, Join, Execute, Reject, Lead,
           Settle, SettleRejected, Return, Keep, StorePut, Respond, WaiterResume, IdemGetFails,
           StoreFails, Crash, Expire
      <3>2. StoredFor(r) = e
        BY <1>2, <3>1 DEF IdemGet
      <3>3. StoreOf(req[r].inst) \in Instance \cup {SharedStore} /\ req[r].key \in Key
        BY <3>1, InstType DEF IdemGet, TypeInv, StoreOf, Keyed, RequestInfo
      <3>4. QED
        BY <3>2, <3>3, OverStays DEF StoredFor, EntriesOver
    <2>3. QED
      BY <2>1, <2>2
  <1>3. QED
    BY <1>1, <1>2 DEF EntriesOver

\* The others stand still.
Alone(r) ==
    \A q \in Request \ {r} : /\ pc'[q] = pc[q] /\ flight'[q] = flight[q] /\ resp'[q] = resp[q]
                             /\ req'[q] = req[q] /\ outcome'[q] = outcome[q]

\* What a request is in the abstract specification follows from its own state.
LEMMA SameImage ==
    ASSUME NEW q \in Request, pc'[q] = pc[q], flight'[q] = flight[q], resp'[q] = resp[q], req'[q] = req[q]
    PROVE  /\ Stage(q)' = Stage(q) /\ SourceOf(q)' = SourceOf(q) /\ (Open(q)' <=> Open(q))
           /\ TagOf(q)' = TagOf(q)
  BY SameData DEF Stage, SourceOf, Open, TagOf

StageBar == [r \in Request |-> Stage(r)]
TagBar == [r \in Request |-> TagOf(r)]
SourceBar == [r \in Request |-> SourceOf(r)]
OpenBar == {r \in Request : Open(r)}
GoodBar == {r \in Request : outcome[r] = "ok"}

\* The image of a step in which only r moves.
LEMMA ImageMoves ==
    ASSUME NEW r \in Request, Alone(r)
    PROVE  /\ StageBar' = [StageBar EXCEPT ![r] = Stage(r)']
           /\ TagBar' = [TagBar EXCEPT ![r] = TagOf(r)']
           /\ SourceBar' = [SourceBar EXCEPT ![r] = SourceOf(r)']
           /\ OpenBar' = IF Open(r)' THEN OpenBar \cup {r} ELSE OpenBar \ {r}
           /\ GoodBar' = IF outcome'[r] = "ok" THEN GoodBar \cup {r} ELSE GoodBar \ {r}
  <1>1. \A q \in Request \ {r} : /\ Stage(q)' = Stage(q) /\ SourceOf(q)' = SourceOf(q)
                                 /\ (Open(q)' <=> Open(q)) /\ TagOf(q)' = TagOf(q)
    BY SameImage DEF Alone
  <1>2. StageBar' = [StageBar EXCEPT ![r] = Stage(r)']
    BY <1>1 DEF StageBar
  <1>3. TagBar' = [TagBar EXCEPT ![r] = TagOf(r)']
    BY <1>1 DEF TagBar
  <1>4. SourceBar' = [SourceBar EXCEPT ![r] = SourceOf(r)']
    BY <1>1 DEF SourceBar
  <1>5. OpenBar' = IF Open(r)' THEN OpenBar \cup {r} ELSE OpenBar \ {r}
    BY <1>1 DEF OpenBar
  <1>6. GoodBar' = IF outcome'[r] = "ok" THEN GoodBar \cup {r} ELSE GoodBar \ {r}
    BY DEF GoodBar, Alone
  <1>7. QED
    BY <1>2, <1>3, <1>4, <1>5, <1>6

\* A handler moves its own request only.
LEMMA HandlerAlone ==
    ASSUME TypeInv, NEW r \in Request,
           \/ Arrive(r) \/ IdemGet(r) \/ Conflict(r) \/ Replay(r)
           \/ Join(r) \/ Execute(r) \/ Reject(r) \/ Settle(r) \/ SettleRejected(r)
           \/ Return(r) \/ Keep(r) \/ StorePut(r) \/ Respond(r) \/ WaiterResume(r)
           \/ IdemGetFails(r) \/ StoreFails(r)
    PROVE  Alone(r) /\ (~Arrive(r) => UNCHANGED req)
  <1> USE DEF Alone, Goto, Reply
  <1> /\ pc \in [Request -> Phase] /\ req \in [Request -> RequestInfo \cup {None}]
      /\ flight \in [Request -> Request \cup {None}] /\ outcome \in [Request -> Outcome \cup {None}]
      /\ resp \in [Request -> Answer \cup {None}]
    BY DEF TypeInv, TypeOK
  <1>1. CASE Arrive(r)
    BY <1>1 DEF Arrive
  <1>2. CASE IdemGet(r) \/ Conflict(r) \/ Replay(r) \/ IdemGetFails(r)
    BY <1>2 DEF IdemGet, Conflict, Replay, IdemGetFails
  <1>3. CASE Join(r) \/ Execute(r) \/ Reject(r)
    BY <1>3 DEF Join, Execute, Reject, Lead
  <1>4. CASE Settle(r) \/ SettleRejected(r)
    BY <1>4 DEF Settle, SettleRejected
  <1>5. CASE Return(r) \/ Keep(r)
    BY <1>5 DEF Return, Keep
  <1>6. CASE StorePut(r) \/ Respond(r) \/ WaiterResume(r) \/ StoreFails(r)
    BY <1>6 DEF StorePut, Respond, WaiterResume, StoreFails
  <1>7. QED
    BY <1>1, <1>2, <1>3, <1>4, <1>5, <1>6

\* A request that starts to lead leads in the abstract specification: no
\* execution of its tag is open, by InflightExact.
LEMMA LeadImage ==
    ASSUME TypeInv, InflightExact, OutcomeLate, NEW r \in Request, Execute(r) \/ Reject(r)
    PROVE  Abstract!Lead(r)
  <1>1. /\ StageBar' = [StageBar EXCEPT ![r] = Stage(r)']
        /\ TagBar' = [TagBar EXCEPT ![r] = TagOf(r)']
        /\ SourceBar' = [SourceBar EXCEPT ![r] = SourceOf(r)']
        /\ OpenBar' = IF Open(r)' THEN OpenBar \cup {r} ELSE OpenBar \ {r}
        /\ GoodBar' = IF outcome'[r] = "ok" THEN GoodBar \cup {r} ELSE GoodBar \ {r}
        /\ UNCHANGED req
    BY HandlerAlone, ImageMoves DEF Execute, Reject, Lead, CanDispatch, Arrive
  <1>2. Stage(r) = "in" /\ SourceOf(r) = None /\ ~Open(r)
    BY DEF Execute, Reject, Lead, CanDispatch, Stage, SourceOf, Open
  <1>3. Stage(r)' = "in" /\ SourceOf(r)' = r /\ Open(r)'
    BY DEF Execute, Reject, Goto, Stage, SourceOf, Open, TypeInv, TypeOK
  <1>4. TagOf(r)' = TagOf(r) /\ outcome' = outcome
    BY <1>1, SameData DEF TagOf, Execute, Reject, Lead
  <1>5. ASSUME TagOf(r) # None, NEW e \in Request, Open(e), TagOf(e) = TagOf(r) PROVE FALSE
    <2>1. Deduped(r) /\ Deduped(e) /\ req[e].inst = req[r].inst /\ DedupeKeyOf(e) = DedupeKeyOf(r)
      BY <1>5 DEF TagOf
    <2>2. FlightOf(r) = None /\ FlightOf(e) = e
      BY <2>1, <1>5 DEF InflightExact, Execute, Reject, Lead
    <2>3. QED
      BY <2>1, <2>2, NamesAssumption DEF FlightOf
  <1>6. StageBar' = StageBar /\ TagBar' = TagBar /\ GoodBar' = GoodBar
        /\ SourceBar' = [SourceBar EXCEPT ![r] = r] /\ OpenBar' = OpenBar \cup {r}
    BY <1>1, <1>2, <1>3, <1>4 DEF StageBar, TagBar, GoodBar
  <1>7. StageBar[r] = "in" /\ SourceBar[r] = None
        /\ (TagBar[r] = None \/ \A e \in OpenBar : TagBar[e] # TagBar[r])
    BY <1>2, <1>5 DEF StageBar, SourceBar, TagBar, OpenBar
  <1>8. QED
    BY <1>6, <1>7 DEF Abstract!Lead, Abstract!Waiting, StageBar, TagBar, SourceBar, OpenBar, GoodBar

\* A request arrives: it gets its tag.
LEMMA ArriveImage ==
    ASSUME TypeInv, OutcomeLate, NEW r \in Request, Arrive(r)
    PROVE  Abstract!Enter(r)
  <1>1. /\ StageBar' = [StageBar EXCEPT ![r] = Stage(r)']
        /\ TagBar' = [TagBar EXCEPT ![r] = TagOf(r)']
        /\ SourceBar' = [SourceBar EXCEPT ![r] = SourceOf(r)']
        /\ OpenBar' = IF Open(r)' THEN OpenBar \cup {r} ELSE OpenBar \ {r}
        /\ GoodBar' = IF outcome'[r] = "ok" THEN GoodBar \cup {r} ELSE GoodBar \ {r}
    BY HandlerAlone, ImageMoves
  <1>2. Stage(r) = "out" /\ SourceOf(r) = None /\ ~Open(r) /\ outcome' = outcome
    BY DEF Arrive, Stage, SourceOf, Open
  <1>3. Stage(r)' = "in" /\ SourceOf(r)' = None /\ ~Open(r)'
    BY DEF Arrive, Goto, Stage, SourceOf, Open, TypeInv, TypeOK
  <1>4. TagOf(r)' \in (Instance \X DedupeKey) \cup {None}
    <2>1. CASE Deduped(r)' /\ req'[r] # None
      <3>1. req'[r] \in RequestInfo
        BY DEF Arrive, TypeInv, TypeOK
      <3>2. req'[r].inst \in Instance
        BY <3>1 DEF RequestInfo
      <3>3. DedupeKeyOf(r)' \in DedupeKey
        BY <2>1, <3>1 DEF RequestInfo, DedupeKeyOf, DedupeKey, Deduped, Keyed, HashOf
      <3>4. QED
        BY <3>2, <3>3 DEF TagOf
    <2>2. QED
      BY <2>1 DEF TagOf
  <1>5. SourceBar' = SourceBar /\ OpenBar' = OpenBar /\ GoodBar' = GoodBar
        /\ StageBar' = [StageBar EXCEPT ![r] = "in"] /\ TagBar' = [TagBar EXCEPT ![r] = TagOf(r)']
    BY <1>1, <1>2, <1>3 DEF SourceBar, OpenBar, GoodBar
  <1>6. StageBar[r] = "out"
    BY <1>2 DEF StageBar
  <1>7. QED
    BY <1>4, <1>5, <1>6 DEF Abstract!Enter, StageBar, TagBar, SourceBar, OpenBar, GoodBar

\* A request joins the open execution of its tag.
LEMMA JoinImage ==
    ASSUME TypeInv, InflightExact, NEW r \in Request, Join(r)
    PROVE  \E e \in Request : Abstract!Join(r, e)
  <1> DEFINE e == FlightOf(r)
  <1>1. /\ StageBar' = [StageBar EXCEPT ![r] = Stage(r)']
        /\ TagBar' = [TagBar EXCEPT ![r] = TagOf(r)']
        /\ SourceBar' = [SourceBar EXCEPT ![r] = SourceOf(r)']
        /\ OpenBar' = IF Open(r)' THEN OpenBar \cup {r} ELSE OpenBar \ {r}
        /\ GoodBar' = IF outcome'[r] = "ok" THEN GoodBar \cup {r} ELSE GoodBar \ {r}
        /\ UNCHANGED <<req, outcome>>
    BY HandlerAlone, ImageMoves DEF Join
  <1>2. pc[r] # "idle" /\ Deduped(r) /\ e # None
    BY DEF Join, CanDispatch
  <1>3. req[r] \in RequestInfo /\ req[r].inst \in Instance /\ DedupeKeyOf(r) \in DedupeKey
    BY <1>2, InstType, DedupeKeyType DEF TypeInv
  <1>4. e \in Request
    BY <1>2, <1>3 DEF FlightOf, TypeInv, TypeOK
  <1>5. Open(e) /\ Deduped(e) /\ req[e].inst = req[r].inst /\ DedupeKeyOf(e) = DedupeKeyOf(r)
    BY <1>3, <1>4 DEF InflightExact, FlightOf
  <1>6. TagOf(r) # None /\ TagOf(e) = TagOf(r) /\ TagOf(r)' = TagOf(r)
    <2>1. req[e] # None /\ req[r] # None
      BY <1>3, <1>4, <1>5, InstType, TagAssumption DEF Open, TypeInv
    <2>2. TagOf(r) \in Instance \X DedupeKey /\ TagOf(e) = TagOf(r)
      BY <2>1, <1>2, <1>3, <1>5 DEF TagOf
    <2>3. QED
      BY <2>2, <1>1, SameData, TagAssumption DEF TagOf
  <1>7. Stage(r) = "in" /\ SourceOf(r) = None /\ ~Open(r)
    BY DEF Join, CanDispatch, Stage, SourceOf, Open
  <1>8. Stage(r)' = "in" /\ SourceOf(r)' = e /\ ~Open(r)'
    BY DEF Join, Goto, Stage, SourceOf, Open, TypeInv, TypeOK
  <1>9. StageBar' = StageBar /\ TagBar' = TagBar /\ GoodBar' = GoodBar /\ OpenBar' = OpenBar
        /\ SourceBar' = [SourceBar EXCEPT ![r] = e]
    BY <1>1, <1>6, <1>7, <1>8 DEF StageBar, TagBar, GoodBar, OpenBar
  <1>10. StageBar[r] = "in" /\ SourceBar[r] = None /\ TagBar[r] # None
         /\ e \in OpenBar /\ TagBar[e] = TagBar[r]
    BY <1>4, <1>5, <1>6, <1>7 DEF StageBar, SourceBar, TagBar, OpenBar
  <1> HIDE DEF e
  <1>11. Abstract!Join(r, e)
    BY <1>9, <1>10 DEF Abstract!Join, Abstract!Waiting, StageBar, TagBar, SourceBar, OpenBar, GoodBar
  <1>12. QED
    BY <1>4, <1>11

\* A request is answered from its source, which is over, or without one.
LEMMA DeliverImage ==
    ASSUME TypeInv, JoinGood, NEW r \in Request,
           \/ IdemGetFails(r) \/ Conflict(r) \/ StoreFails(r) \/ Respond(r) \/ WaiterResume(r)
    PROVE  Abstract!Deliver(r)
  <1>1. /\ StageBar' = [StageBar EXCEPT ![r] = Stage(r)']
        /\ TagBar' = [TagBar EXCEPT ![r] = TagOf(r)']
        /\ SourceBar' = [SourceBar EXCEPT ![r] = SourceOf(r)']
        /\ OpenBar' = IF Open(r)' THEN OpenBar \cup {r} ELSE OpenBar \ {r}
        /\ GoodBar' = IF outcome'[r] = "ok" THEN GoodBar \cup {r} ELSE GoodBar \ {r}
        /\ UNCHANGED <<req, outcome>>
    BY HandlerAlone, ImageMoves
       DEF IdemGetFails, Conflict, StoreFails, Respond, WaiterResume
  <1>2. Stage(r) = "in" /\ Stage(r)' = "done" /\ ~Open(r) /\ ~Open(r)'
    BY DEF IdemGetFails, Conflict, StoreFails, Respond, WaiterResume, Reply, Goto, Stage, Open,
           TypeInv, TypeOK
  <1>3. SourceOf(r)' = SourceOf(r) /\ SourceOf(r) \notin OpenBar
    <2> pc \in [Request -> Phase] /\ resp \in [Request -> Answer \cup {None}]
      BY DEF TypeInv, TypeOK
    <2>1. CASE IdemGetFails(r) \/ Conflict(r)
      BY <2>1, NamesAssumption DEF IdemGetFails, Conflict, Reply, Goto, SourceOf, Open, OpenBar
    <2>2. CASE StoreFails(r) \/ Respond(r)
      BY <2>2 DEF StoreFails, Respond, Reply, Goto, SourceOf, Open, OpenBar
    <2>3. CASE WaiterResume(r)
      BY <2>3 DEF WaiterResume, Reply, Goto, SourceOf, Open, OpenBar
    <2>4. QED
      BY <2>1, <2>2, <2>3
  <1>4. TagOf(r)' = TagOf(r)
    BY <1>1, SameData DEF TagOf
  <1>5. StageBar' = [StageBar EXCEPT ![r] = "done"] /\ TagBar' = TagBar /\ SourceBar' = SourceBar
        /\ OpenBar' = OpenBar /\ GoodBar' = GoodBar
    <2>1. StageBar' = [StageBar EXCEPT ![r] = "done"]
      BY <1>1, <1>2
    <2>2. TagBar' = TagBar
      BY <1>1, <1>4 DEF TagBar
    <2>3. SourceBar' = SourceBar
      BY <1>1, <1>3 DEF SourceBar
    <2>4. OpenBar' = OpenBar
      BY <1>1, <1>2 DEF OpenBar
    <2>5. GoodBar' = GoodBar
      BY <1>1 DEF GoodBar
    <2>6. QED
      BY <2>1, <2>2, <2>3, <2>4, <2>5
  <1>6. StageBar[r] = "in" /\ SourceBar[r] \notin OpenBar
    BY <1>2, <1>3 DEF StageBar, SourceBar
  <1>7. QED
    BY <1>5, <1>6 DEF Abstract!Deliver, StageBar, TagBar, SourceBar, OpenBar, GoodBar

\* A request is given an execution that succeeded and is over.
LEMMA ReplayImage ==
    ASSUME TypeInv, SeenGood, EntriesOver, NEW r \in Request, Replay(r)
    PROVE  \E e \in Request : Abstract!Replay(r, e)
  <1> DEFINE e == seen[r]
  <1>1. /\ StageBar' = [StageBar EXCEPT ![r] = Stage(r)']
        /\ TagBar' = [TagBar EXCEPT ![r] = TagOf(r)']
        /\ SourceBar' = [SourceBar EXCEPT ![r] = SourceOf(r)']
        /\ OpenBar' = IF Open(r)' THEN OpenBar \cup {r} ELSE OpenBar \ {r}
        /\ GoodBar' = IF outcome'[r] = "ok" THEN GoodBar \cup {r} ELSE GoodBar \ {r}
        /\ UNCHANGED <<req, outcome>>
    BY HandlerAlone, ImageMoves DEF Replay
  <1>2. e \in Request /\ outcome[e] = "ok" /\ ~Open(e)
    BY DEF Replay, SeenGood, Good, EntriesOver, Over, Open, TypeInv, TypeOK
  <1>3. Stage(r) = "in" /\ Stage(r)' = "done" /\ ~Open(r) /\ ~Open(r)'
        /\ SourceOf(r) = None /\ SourceOf(r)' = e
    BY DEF Replay, Reply, Goto, Stage, Open, SourceOf, TypeInv, TypeOK
  <1>4. TagOf(r)' = TagOf(r)
    BY <1>1, SameData DEF TagOf
  <1>5. StageBar' = [StageBar EXCEPT ![r] = "done"] /\ TagBar' = TagBar
        /\ SourceBar' = [SourceBar EXCEPT ![r] = e] /\ OpenBar' = OpenBar /\ GoodBar' = GoodBar
    BY <1>1, <1>3, <1>4 DEF TagBar, OpenBar, GoodBar
  <1>6. StageBar[r] = "in" /\ SourceBar[r] = None /\ e \in GoodBar \ OpenBar
    BY <1>2, <1>3 DEF StageBar, SourceBar, GoodBar, OpenBar
  <1> HIDE DEF e
  <1>7. Abstract!Replay(r, e)
    BY <1>5, <1>6 DEF Abstract!Replay, Abstract!Waiting, StageBar, TagBar, SourceBar, OpenBar, GoodBar
  <1>8. QED
    BY <1>2, <1>7

\* A leader that resumes is no longer open; it is answered at once or stores first.
LEMMA CloseImage ==
    ASSUME TypeInv, NEW r \in Request, Return(r) \/ Keep(r)
    PROVE  Abstract!Close(r)
  <1>1. /\ StageBar' = [StageBar EXCEPT ![r] = Stage(r)']
        /\ TagBar' = [TagBar EXCEPT ![r] = TagOf(r)']
        /\ SourceBar' = [SourceBar EXCEPT ![r] = SourceOf(r)']
        /\ OpenBar' = IF Open(r)' THEN OpenBar \cup {r} ELSE OpenBar \ {r}
        /\ GoodBar' = IF outcome'[r] = "ok" THEN GoodBar \cup {r} ELSE GoodBar \ {r}
        /\ UNCHANGED <<req, outcome>>
    BY HandlerAlone, ImageMoves DEF Return, Keep
  <1> pc \in [Request -> Phase] /\ resp \in [Request -> Answer \cup {None}]
    BY DEF TypeInv, TypeOK
  <1>2. Open(r) /\ ~Open(r)' /\ Stage(r) = "in" /\ Stage(r)' \in {"in", "done"}
        /\ SourceOf(r) = r /\ SourceOf(r)' = r
    <2>1. CASE Return(r)
      BY <2>1 DEF Return, Reply, Goto, Stage, Open, SourceOf
    <2>2. CASE Keep(r)
      BY <2>2 DEF Keep, Goto, Stage, Open, SourceOf
    <2>3. QED
      BY <2>1, <2>2
  <1>3. TagOf(r)' = TagOf(r)
    BY <1>1, SameData DEF TagOf
  <1>4. StageBar' \in {StageBar, [StageBar EXCEPT ![r] = "done"]} /\ TagBar' = TagBar
        /\ SourceBar' = SourceBar /\ OpenBar' = OpenBar \ {r} /\ GoodBar' = GoodBar /\ r \in OpenBar
    <2>1. StageBar' \in {StageBar, [StageBar EXCEPT ![r] = "done"]}
      <3>1. CASE Stage(r)' = "in"
        BY <1>1, <1>2, <3>1 DEF StageBar
      <3>2. CASE Stage(r)' = "done"
        BY <1>1, <3>2
      <3>3. QED
        BY <1>2, <3>1, <3>2
    <2>2. TagBar' = TagBar
      BY <1>1, <1>3 DEF TagBar
    <2>3. SourceBar' = SourceBar
      BY <1>1, <1>2 DEF SourceBar
    <2>4. OpenBar' = OpenBar \ {r} /\ r \in OpenBar
      BY <1>1, <1>2 DEF OpenBar
    <2>5. GoodBar' = GoodBar
      BY <1>1 DEF GoodBar
    <2>6. QED
      BY <2>1, <2>2, <2>3, <2>4, <2>5
  <1>5. QED
    BY <1>4 DEF Abstract!Close, StageBar, TagBar, SourceBar, OpenBar, GoodBar

\* A step that moves nothing the abstract specification sees.
LEMMA StutterImage ==
    ASSUME TypeInv, OutcomeLate, NEW r \in Request,
           \/ IdemGet(r) \/ StorePut(r) \/ SettleRejected(r)
    PROVE  UNCHANGED Abstract!vars
  <1>1. /\ StageBar' = [StageBar EXCEPT ![r] = Stage(r)']
        /\ TagBar' = [TagBar EXCEPT ![r] = TagOf(r)']
        /\ SourceBar' = [SourceBar EXCEPT ![r] = SourceOf(r)']
        /\ OpenBar' = IF Open(r)' THEN OpenBar \cup {r} ELSE OpenBar \ {r}
        /\ GoodBar' = IF outcome'[r] = "ok" THEN GoodBar \cup {r} ELSE GoodBar \ {r}
        /\ UNCHANGED req
    BY HandlerAlone, ImageMoves DEF IdemGet, StorePut, SettleRejected
  <1> pc \in [Request -> Phase] /\ outcome \in [Request -> Outcome \cup {None}]
    BY DEF TypeInv, TypeOK
  <1>2. /\ Stage(r)' = Stage(r) /\ SourceOf(r)' = SourceOf(r) /\ (Open(r)' <=> Open(r))
        /\ (outcome'[r] = "ok" <=> outcome[r] = "ok")
    <2>1. CASE IdemGet(r)
      BY <2>1 DEF IdemGet, Goto, Stage, SourceOf, Open
    <2>2. CASE StorePut(r)
      BY <2>2 DEF StorePut, Goto, Stage, SourceOf, Open
    <2>3. CASE SettleRejected(r)
      BY <2>3, NamesAssumption DEF SettleRejected, Goto, Stage, SourceOf, Open, OutcomeLate
    <2>4. QED
      BY <2>1, <2>2, <2>3
  <1>3. TagOf(r)' = TagOf(r)
    BY <1>1, SameData DEF TagOf
  <1>4. StageBar' = StageBar
    BY <1>1, <1>2 DEF StageBar
  <1>5. TagBar' = TagBar
    BY <1>1, <1>3 DEF TagBar
  <1>6. SourceBar' = SourceBar
    BY <1>1, <1>2 DEF SourceBar
  <1>7. OpenBar' = OpenBar
    BY <1>1, <1>2 DEF OpenBar
  <1>8. GoodBar' = GoodBar
    BY <1>1, <1>2 DEF GoodBar
  <1>9. QED
    BY <1>4, <1>5, <1>6, <1>7, <1>8
       DEF Abstract!vars, StageBar, TagBar, SourceBar, OpenBar, GoodBar

\* An execution that ends with a 2xx succeeds while it is still open; any other
\* end is not seen.
LEMMA SucceedImage ==
    ASSUME TypeInv, OutcomeLate, NEW r \in Request, Settle(r)
    PROVE  Abstract!Succeed(r) \/ UNCHANGED Abstract!vars
  <1>1. /\ StageBar' = [StageBar EXCEPT ![r] = Stage(r)']
        /\ TagBar' = [TagBar EXCEPT ![r] = TagOf(r)']
        /\ SourceBar' = [SourceBar EXCEPT ![r] = SourceOf(r)']
        /\ OpenBar' = IF Open(r)' THEN OpenBar \cup {r} ELSE OpenBar \ {r}
        /\ GoodBar' = IF outcome'[r] = "ok" THEN GoodBar \cup {r} ELSE GoodBar \ {r}
        /\ UNCHANGED req
    BY HandlerAlone, ImageMoves DEF Settle
  <1>2. /\ Stage(r)' = Stage(r) /\ SourceOf(r)' = SourceOf(r) /\ Open(r)' /\ Open(r)
        /\ outcome[r] # "ok"
    BY NamesAssumption DEF Settle, Goto, Stage, SourceOf, Open, OutcomeLate, TypeInv, TypeOK
  <1>3. TagOf(r)' = TagOf(r)
    BY <1>1, SameData DEF TagOf
  <1>4. StageBar' = StageBar
    BY <1>1, <1>2 DEF StageBar
  <1>5. TagBar' = TagBar
    BY <1>1, <1>3 DEF TagBar
  <1>6. SourceBar' = SourceBar
    BY <1>1, <1>2 DEF SourceBar
  <1>7. OpenBar' = OpenBar /\ r \in OpenBar
    BY <1>1, <1>2 DEF OpenBar
  <1>8. GoodBar' = GoodBar \/ GoodBar' = GoodBar \cup {r}
    BY <1>1, <1>2 DEF GoodBar
  <1>9. QED
    BY <1>4, <1>5, <1>6, <1>7, <1>8
       DEF Abstract!vars, Abstract!Succeed, StageBar, TagBar, SourceBar, OpenBar, GoodBar

\* A crash abandons the requests of its process.
LEMMA CrashImage ==
    ASSUME TypeInv, NEW i \in Instance, Crash(i)
    PROVE  \E R \in SUBSET Request : Abstract!Abandon(R)
  <1> DEFINE R == {r \in Request : pc[r] \notin {"idle", "done"} /\ req[r].inst = i}
  <1> pc \in [Request -> Phase] /\ resp \in [Request -> Answer \cup {None}]
    BY DEF TypeInv, TypeOK
  <1>1. /\ pc' = [r \in Request |-> IF r \in R THEN "done" ELSE pc[r]]
        /\ resp' = [r \in Request |-> IF r \in R THEN [kind |-> "lost", exec |-> None] ELSE resp[r]]
        /\ UNCHANGED <<req, flight, outcome>>
    BY DEF Crash
  <1>2. \A r \in R : pc[r] # "idle" /\ pc[r] # "done"
    OBVIOUS
  <1>3. R \in SUBSET Request
    OBVIOUS
  <1> HIDE DEF R
  <1>4. ASSUME NEW r \in R
        PROVE  Stage(r) = "in" /\ Stage(r)' = "done" /\ SourceOf(r)' = None /\ ~Open(r)'
    BY <1>1, <1>2, <1>3 DEF Stage, SourceOf, Open
  <1>5. ASSUME NEW r \in Request, r \notin R
        PROVE  Stage(r)' = Stage(r) /\ SourceOf(r)' = SourceOf(r) /\ (Open(r)' <=> Open(r))
    BY <1>1, <1>5, SameImage
  <1>6. StageBar' = [r \in Request |-> IF r \in R THEN "done" ELSE StageBar[r]]
    BY <1>4, <1>5 DEF StageBar
  <1>7. SourceBar' = [r \in Request |-> IF r \in R THEN None ELSE SourceBar[r]]
    BY <1>4, <1>5 DEF SourceBar
  <1>8. OpenBar' = OpenBar \ R
    BY <1>4, <1>5 DEF OpenBar
  <1>9. TagBar' = TagBar
    <2>1. \A r \in Request : TagOf(r)' = TagOf(r)
      BY <1>1, SameData DEF TagOf
    <2>2. QED
      BY <2>1 DEF TagBar
  <1>10. GoodBar' = GoodBar
    BY <1>1 DEF GoodBar
  <1>11. \A r \in R : StageBar[r] = "in"
    BY <1>3, <1>4 DEF StageBar
  <1>12. Abstract!Abandon(R)
    BY <1>6, <1>7, <1>8, <1>9, <1>10, <1>11
       DEF Abstract!Abandon, StageBar, TagBar, SourceBar, OpenBar, GoodBar
  <1>13. QED
    BY <1>3, <1>12

\* A step that leaves alone what the image is made of is not seen.
LEMMA UnseenImage ==
    ASSUME UNCHANGED <<pc, req, flight, outcome, resp>>
    PROVE  UNCHANGED Abstract!vars
  <1>1. \A r \in Request : /\ Stage(r)' = Stage(r) /\ SourceOf(r)' = SourceOf(r)
                           /\ (Open(r)' <=> Open(r)) /\ TagOf(r)' = TagOf(r)
    BY SameImage
  <1>2. StageBar' = StageBar
    BY <1>1 DEF StageBar
  <1>3. TagBar' = TagBar
    BY <1>1 DEF TagBar
  <1>4. SourceBar' = SourceBar
    BY <1>1 DEF SourceBar
  <1>5. OpenBar' = OpenBar
    BY <1>1 DEF OpenBar
  <1>6. GoodBar' = GoodBar
    BY DEF GoodBar
  <1>7. QED
    BY <1>2, <1>3, <1>4, <1>5, <1>6
       DEF Abstract!vars, StageBar, TagBar, SourceBar, OpenBar, GoodBar

\* Every step of the handler is a step of the abstract specification or is not
\* seen there.
LEMMA StepImage ==
    ASSUME TypeInv, InflightExact, ProvenanceInv, EntriesOver, [Next]_vars
    PROVE  [Abstract!Next]_(Abstract!vars)
  <1> USE DEF ProvenanceInv
  <1>1. CASE UNCHANGED vars
    BY <1>1, UnseenImage DEF vars
  <1>2. ASSUME NEW r \in Request,
               \/ Arrive(r) \/ Execute(r) \/ Reject(r) \/ Return(r) \/ Keep(r)
               \/ IdemGetFails(r) \/ Conflict(r) \/ StoreFails(r) \/ Respond(r) \/ WaiterResume(r)
        PROVE  Abstract!Next
    <2>1. Abstract!Enter(r) \/ Abstract!Lead(r) \/ Abstract!Close(r) \/ Abstract!Deliver(r)
      BY <1>2, ArriveImage, LeadImage, CloseImage, DeliverImage
    <2>2. QED
      BY <2>1 DEF Abstract!Next
  <1>3. ASSUME NEW r \in Request, Join(r) \/ Replay(r) PROVE Abstract!Next
    <2>1. \E e \in Request : Abstract!Join(r, e) \/ Abstract!Replay(r, e)
      BY <1>3, JoinImage, ReplayImage
    <2>2. QED
      BY <2>1 DEF Abstract!Next
  <1>4. ASSUME NEW r \in Request, Settle(r) PROVE Abstract!Next \/ UNCHANGED Abstract!vars
    <2>1. Abstract!Succeed(r) \/ UNCHANGED Abstract!vars
      BY <1>4, SucceedImage
    <2>2. QED
      BY <2>1 DEF Abstract!Next
  <1>5. ASSUME NEW r \in Request, IdemGet(r) \/ StorePut(r) \/ SettleRejected(r)
        PROVE  UNCHANGED Abstract!vars
    BY <1>5, StutterImage
  <1>6. ASSUME NEW i \in Instance, Crash(i) PROVE Abstract!Next
    <2>1. \E R \in SUBSET Request : Abstract!Abandon(R)
      BY <1>6, CrashImage
    <2>2. QED
      BY <2>1 DEF Abstract!Next
  <1>7. ASSUME NEW s \in Instance \cup {SharedStore}, NEW k \in Key, Expire(s, k)
        PROVE  UNCHANGED Abstract!vars
    BY <1>7, UnseenImage DEF Expire
  <1>8. QED
    BY <1>1, <1>2, <1>3, <1>4, <1>5, <1>6, <1>7, NextCases

\* The handler starts where the abstract specification does.
LEMMA InitImage == ASSUME Init PROVE Abstract!Init
  <1>1. \A r \in Request : /\ Stage(r) = "out" /\ TagOf(r) = None /\ SourceOf(r) = None
                           /\ ~Open(r) /\ outcome[r] # "ok"
    BY NamesAssumption DEF Init, Stage, TagOf, SourceOf, Open
  <1>2. QED
    BY <1>1 DEF Abstract!Init

\* The handler implements SharedExecution: executions of one deduplication key do
\* not overlap in a process, a request is attached to an execution only while
\* that is open, and later it is given none but a successful one.
THEOREM Refinement == Spec => ImplementsSharedExecution
  <1>1. Init => TypeInv /\ InflightExact /\ ProvenanceInv /\ EntriesOver /\ Abstract!Init
    <2>1. Init => EntriesOver
      BY NamesAssumption DEF Init, EntriesOver
    <2>2. QED
      BY <2>1, InitImage, TypeInit, ProvenanceInit, NamesAssumption DEF Init, InflightExact, Open
  <1>2. TypeInv /\ InflightExact /\ ProvenanceInv /\ EntriesOver /\ [Next]_vars
          => (TypeInv /\ InflightExact /\ ProvenanceInv /\ EntriesOver)'
    BY TypeStep, FlightsStep, ProvenanceStep, EntriesOverStep
  <1>3. TypeInv /\ InflightExact /\ ProvenanceInv /\ EntriesOver /\ [Next]_vars
          => [Abstract!Next]_(Abstract!vars)
    BY StepImage
  <1>4. QED
    BY <1>1, <1>2, <1>3, PTL DEF Spec, ImplementsSharedExecution, Abstract!Spec

=============================================================================
