------------------------ MODULE ModelSettings_proofs ------------------------
(***************************************************************************)
(* A type that had a default keeps one, and never has two, up to the       *)
(* overlaps that OneDefault names, for any number of threads, readers,     *)
(* models, types and requests; and an answer or a service that starts      *)
(* finds the prompt, default or model it looks for, up to what a failure,  *)
(* a deletion or a switch under way excuses.                               *)
(***************************************************************************)
EXTENDS ModelSettings, FiniteSetTheorems, TLAPS

Pcs == {"idle", "check", "fetch", "clear", "set", "unset", "insert", "check use", "delete",
        "deactivate", "activate", "select", "insert settings", "update settings"}

Requests ==
    [kind : {"none", "create", "update", "default", "delete", "activate", "configure"},
     pc : Pcs, id : Ids \cup {NoModel}, type : Types, on : BOOLEAN, version : Versions,
     scope : Scopes]

\* A request about a model names one, and one that clears the default is to set another.
NamesModel(r) ==
    /\ r.pc \in {"check", "fetch", "clear", "set", "unset", "insert"} => r.id \in Ids
    /\ r.pc = "clear" => r.on

Readings ==
    [pc : {"idle", "base", "version", "any version", "default", "default of id", "any of id",
           "legacy", "done"},
     kind : {"none", "prompt", "start", "settings", "answer", "rerank", "failed"},
     scope : Scopes, id : Ids \cup {NoModel}, type : Types, found : BOOLEAN]

\* The type invariant of the settings API and its readers.
TypeOK ==
    /\ models \subseteq ModelRows /\ active \subseteq Versions
    /\ settings \in [Scopes -> Ids \cup {NoModel, Absent}]
    /\ req \in [Procs -> Requests] /\ reader \in [Readers -> Readings]
    /\ requests \in Nat
    /\ had \subseteq Types /\ lost \subseteq Types \cup {"prompt"} /\ crossed \subseteq Types
    /\ loose \subseteq Scopes /\ excused \subseteq Readers
    /\ \A p \in Procs : NamesModel(req[p])

\* No two rows of one id and type.
UniqueRows == \A m, n \in models : m.id = n.id /\ m.type = n.type => m = n

\* Who is halfway through a switch of the type
Halfways(t) == {p \in Procs : Halfway(p) /\ req[p].type = t}

\* Of a type whose switches did not meet, the default is one row, or the row that one request
\* is about to make the default.
OneSource ==
    \A t \in Types \ crossed :
        /\ \A m, n \in Defaults(t) : m = n
        /\ \A p, q \in Halfways(t) : p = q
        /\ Halfways(t) # {} => Defaults(t) = {}

\* A type that had a default and did not lose it has one, or is being switched.
DefaultKept == \A t \in had \ lost : Defaults(t) # {} \/ Halfways(t) # {}

SwitchInv == TypeOK /\ UniqueRows /\ OneSource /\ DefaultKept

-----------------------------------------------------------------------------
(* Steps by what they do to the defaults *)

\* A thread that is not halfway before or after, or stays so with the same type, or stops
\* with the type counted as lost; and rows and history of defaults as they were.
Harmless(p) ==
    /\ models' = models /\ crossed' = crossed /\ lost \subseteq lost'
    /\ \A q \in Procs \ {p} : req'[q] = req[q]
    /\ Halfway(p)' => Halfway(p) /\ req'[p].type = req[p].type
    /\ Halfway(p) => Halfway(p)' \/ req[p].type \in lost'

LEMMA HarmlessStep ==
    ASSUME SwitchInv, NEW p \in Procs, Harmless(p), Observe
    PROVE  UniqueRows' /\ OneSource' /\ DefaultKept'
<1>1. \A t : Defaults(t)' = Defaults(t)
  BY DEF Harmless, Defaults, DefaultsIn
<1>2. \A t : Halfways(t)' \subseteq Halfways(t)
  BY DEF Harmless, Halfways, Halfway
<1>3. \A t \in Types \ lost' : Halfways(t) \subseteq Halfways(t)'
  BY DEF Harmless, Halfways, Halfway
<1>4. \A t \in had' : t \in Types /\ (t \in had \/ Defaults(t)' # {})
  BY DEF Observe, SwitchInv, TypeOK
<1>5. UniqueRows'
  BY DEF SwitchInv, UniqueRows, Harmless
<1>6. OneSource'
  BY <1>1, <1>2 DEF SwitchInv, OneSource, Harmless
<1>7. DefaultKept'
  BY <1>1, <1>3, <1>4 DEF SwitchInv, DefaultKept, Harmless
<1> QED BY <1>5, <1>6, <1>7

-----------------------------------------------------------------------------
(* Types *)

LEMMA IdleTyped == Idle \in Requests /\ Idle.pc = "idle" /\ NamesModel(Idle)
  BY ModelSettingsAssumption DEF Idle, Requests, Scopes, Pcs, NamesModel

LEMMA TypeInit == Init => TypeOK
<1> SUFFICES ASSUME Init PROVE TypeOK
  OBVIOUS
<1>1. IdleReader \in Readings
  BY ModelSettingsAssumption DEF IdleReader, Readings, Scopes
<1>2. \A p \in Procs : NamesModel(req[p])
  BY IdleTyped DEF Init
<1>3. req \in [Procs -> Requests] /\ reader \in [Readers -> Readings]
  BY <1>1, IdleTyped DEF Init
<1> QED
  BY <1>2, <1>3, ModelSettingsAssumption DEF TypeOK, Init

\* The record of a thread changes, and those of the others are untouched.
Becomes(p, r) == req' = [req EXCEPT ![p] = r] /\ r \in Requests /\ NamesModel(r)

LEMMA OneRecord ==
    ASSUME TypeOK, NEW p \in Procs, NEW r, Becomes(p, r)
    PROVE  /\ req' \in [Procs -> Requests] /\ req'[p] = r
           /\ \A q \in Procs \ {p} : req'[q] = req[q]
           /\ \A q \in Procs : NamesModel(req'[q])
<1>1. req' \in [Procs -> Requests] /\ req'[p] = r /\ \A q \in Procs \ {p} : req'[q] = req[q]
  BY DEF TypeOK, Becomes
<1>2. \A q \in Procs : NamesModel(req'[q])
  BY <1>1 DEF TypeOK, Becomes
<1> QED BY <1>1, <1>2

LEMMA GoesOn ==
    ASSUME TypeOK, NEW p \in Procs, NEW pc \in Pcs, Goto(p, pc),
           NamesModel([req[p] EXCEPT !.pc = pc])
    PROVE  Becomes(p, [req[p] EXCEPT !.pc = pc])
  BY DEF TypeOK, Goto, Requests, Becomes

LEMMA IsAnswered ==
    ASSUME TypeOK, NEW p \in Procs, Answer(p)
    PROVE  Becomes(p, Idle)
  BY IdleTyped DEF Answer, Becomes

\* The tables, the number of requests and the history of a thread's step
RestTyped ==
    /\ models \subseteq ModelRows /\ active \subseteq Versions
    /\ settings \in [Scopes -> Ids \cup {NoModel, Absent}] /\ requests \in Nat
    /\ lost \subseteq Types \cup {"prompt"} /\ crossed \subseteq Types /\ loose \subseteq Scopes

\* What the rows of a type and an id have for a step to keep their types
LEMMA RowsTyped ==
    ASSUME TypeOK
    PROVE  /\ \A m \in models : m \in ModelRows /\ m.type \in Types
           /\ \A m \in models, d \in BOOLEAN : [m EXCEPT !.default = d] \in ModelRows
           /\ \A id : RowsOf(id) \subseteq models
  BY DEF TypeOK, ModelRows, RowsOf

LEMMA BeginTyped ==
    ASSUME TypeOK, NEW p \in Procs, NEW r \in Requests, NamesModel(r), Begin(p, r)
    PROVE  Becomes(p, r) /\ RestTyped' /\ UNCHANGED reader
  BY DEF TypeOK, Begin, Becomes, RestTyped, tables

\* Each step of a thread.
LEMMA ServeTyped ==
    ASSUME TypeOK, NEW p \in Procs, Serve(p)
    PROVE  (\E r : Becomes(p, r)) /\ RestTyped' /\ UNCHANGED reader
<1>1. req[p] \in Requests /\ NamesModel(req[p])
  BY DEF TypeOK
<1>2. CASE BeginCreate(p)
  <2>1. PICK id \in Ids, t \in Types, on \in BOOLEAN :
          Begin(p, [Idle EXCEPT !.kind = "create", !.pc = "check", !.id = id, !.type = t,
                                !.on = on])
    BY <1>2 DEF BeginCreate
  <2> QED BY <2>1, IdleTyped, BeginTyped DEF Requests, Pcs, NamesModel
<1>3. CASE BeginUpdate(p)
  <2>1. PICK id \in Ids, on \in BOOLEAN :
          Begin(p, [Idle EXCEPT !.kind = "update", !.pc = "fetch", !.id = id, !.on = on])
    BY <1>3 DEF BeginUpdate
  <2> QED BY <2>1, IdleTyped, BeginTyped DEF Requests, Pcs, NamesModel
<1>4. CASE BeginSetDefault(p) \/ BeginDelete(p)
  <2>1. PICK id \in Ids :
          \/ Begin(p, [Idle EXCEPT !.kind = "default", !.pc = "fetch", !.id = id, !.on = TRUE])
          \/ Begin(p, [Idle EXCEPT !.kind = "delete", !.pc = "fetch", !.id = id])
    BY <1>4 DEF BeginSetDefault, BeginDelete
  <2> QED BY <2>1, IdleTyped, BeginTyped DEF Requests, Pcs, NamesModel
<1>5. CASE BeginActivate(p)
  <2>1. PICK v \in Versions :
          Begin(p, [Idle EXCEPT !.kind = "activate", !.pc = "deactivate", !.version = v])
    BY <1>5 DEF BeginActivate
  <2> QED BY <2>1, IdleTyped, BeginTyped DEF Requests, Pcs, NamesModel
<1>6. CASE BeginConfigure(p)
  <2>1. PICK kb \in KBs, id \in Ids \cup {NoModel} :
          Begin(p, [Idle EXCEPT !.kind = "configure", !.pc = "select", !.scope = kb, !.id = id])
    BY <1>6 DEF BeginConfigure
  <2> QED BY <2>1, IdleTyped, BeginTyped DEF Requests, Pcs, NamesModel, Scopes
<1>7. CASE Stop(p)
  BY <1>1, <1>7, IsAnswered DEF Stop, TypeOK, RestTyped, tables, Requests
<1>8. CASE CheckNew(p)
  <2>1. Answer(p) \/ \E pc \in {"clear", "insert"} : Goto(p, pc) /\ (pc = "clear" => req[p].on)
    BY <1>8 DEF CheckNew
  <2>2. \E r : Becomes(p, r)
    BY <1>1, <1>8, <2>1, IsAnswered, GoesOn DEF CheckNew, NamesModel, Pcs, Requests
  <2> QED BY <1>8, <2>2 DEF CheckNew, TypeOK, RestTyped, tables
<1>9. CASE FetchModel(p)
  <2>1. \/ Answer(p)
        \/ Goto(p, "check use")
        \/ \E m \in models : req' = [req EXCEPT ![p] =
             [req[p] EXCEPT !.type = m.type, !.pc = IF req[p].on THEN "clear" ELSE "unset"]]
    BY <1>9 DEF FetchModel, RowsOf, TypeOK
  <2>2. ASSUME NEW m \in models
        PROVE  LET r == [req[p] EXCEPT !.type = m.type,
                                       !.pc = IF req[p].on THEN "clear" ELSE "unset"]
               IN  r \in Requests /\ NamesModel(r)
    BY <1>1, <1>9, <2>2, RowsTyped DEF FetchModel, Requests, Pcs, NamesModel
  <2>3. \E r : Becomes(p, r)
    <3>1. CASE Answer(p)
      BY <3>1, IsAnswered
    <3>2. CASE Goto(p, "check use")
      BY <1>1, <3>2, GoesOn DEF NamesModel, Pcs, Requests
    <3>3. ASSUME NEW m \in models,
                 req' = [req EXCEPT ![p] =
                   [req[p] EXCEPT !.type = m.type, !.pc = IF req[p].on THEN "clear" ELSE "unset"]]
          PROVE  \E r : Becomes(p, r)
      BY <2>2, <3>3 DEF Becomes
    <3> QED BY <2>1, <3>1, <3>2, <3>3
  <2> QED BY <1>9, <2>3 DEF FetchModel, TypeOK, RestTyped, tables
<1>10. CASE ClearDefault(p)
  <2>1. \E pc \in {"insert", "set"} : Goto(p, pc)
    BY <1>10 DEF ClearDefault
  <2>2. \E r : Becomes(p, r)
    BY <1>1, <1>10, <2>1, GoesOn DEF ClearDefault, NamesModel, Pcs, Requests
  <2>3. models' \subseteq ModelRows
    BY <1>10, RowsTyped DEF ClearDefault, ModelRows
  <2> QED BY <1>1, <1>10, <2>2, <2>3 DEF ClearDefault, TypeOK, RestTyped, Requests
<1>11. CASE SetDefault(p)
  <2>1. models' \subseteq ModelRows
    BY <1>11, RowsTyped DEF SetDefault, ModelRows
  <2> QED BY <1>1, <1>11, <2>1, RowsTyped, IsAnswered DEF SetDefault, TypeOK, RestTyped,
                                                          Requests
<1>12. CASE UnsetDefault(p)
  <2>1. models' \subseteq ModelRows
    BY <1>12, RowsTyped DEF UnsetDefault, ModelRows
  <2> QED BY <1>1, <1>12, <2>1, RowsTyped, IsAnswered DEF UnsetDefault, TypeOK, RestTyped
<1>13. CASE InsertModel(p)
  <2>1. models' \subseteq ModelRows
    BY <1>1, <1>13 DEF InsertModel, TypeOK, NamesModel, Requests, ModelRows
  <2> QED BY <1>1, <1>13, <2>1, IsAnswered DEF InsertModel, TypeOK, RestTyped, Requests
<1>14. CASE CheckUse(p)
  <2>1. \E r : Becomes(p, r)
    BY <1>1, <1>14, IsAnswered, GoesOn DEF CheckUse, NamesModel, Pcs, Requests
  <2> QED BY <1>14, <2>1 DEF CheckUse, TypeOK, RestTyped, tables
<1>15. CASE DeleteModel(p)
  BY <1>15, RowsTyped, IsAnswered DEF DeleteModel, TypeOK, RestTyped
<1>16. CASE Deactivate(p)
  <2>1. \E r : Becomes(p, r)
    BY <1>1, <1>16, GoesOn DEF Deactivate, NamesModel, Pcs, Requests
  <2> QED BY <1>16, <2>1 DEF Deactivate, TypeOK, RestTyped
<1>17. CASE Activate(p)
  BY <1>1, <1>17, IsAnswered DEF Activate, TypeOK, RestTyped, Requests
<1>18. CASE SelectSettings(p)
  <2>1. \E r : Becomes(p, r)
    BY <1>1, <1>18, GoesOn DEF SelectSettings, NamesModel, Pcs, Requests
  <2> QED BY <1>18, <2>1 DEF SelectSettings, TypeOK, RestTyped, tables
<1>19. CASE WriteSettings(p)
  BY <1>1, <1>19, IsAnswered DEF WriteSettings, TypeOK, RestTyped, Requests
<1> QED
  BY <1>2, <1>3, <1>4, <1>5, <1>6, <1>7, <1>8, <1>9, <1>10, <1>11, <1>12, <1>13, <1>14, <1>15,
     <1>16, <1>17, <1>18, <1>19 DEF Serve

LEMMA ReadsTyped ==
    ASSUME TypeOK, NEW r \in Readers, Reads(r)
    PROVE  reader' \in [Readers -> Readings] /\ RestTyped' /\ UNCHANGED req
<1>1. \A rd \in Readings : Read(r, rd) => reader' \in [Readers -> Readings]
  BY DEF TypeOK, Read
<1>2. reader[r] \in Readings /\ IdleReader \in Readings
  BY ModelSettingsAssumption DEF TypeOK, IdleReader, Readings, Scopes
<1>3. (\E rd : Read(r, rd)) => RestTyped' /\ UNCHANGED req
  BY DEF TypeOK, Read, RestTyped, tables
<1>4. \A yes \in BOOLEAN, next \in {"done", "any version", "any of id", "legacy"} :
        Found(r, yes, next) => (\E rd : Read(r, rd)) /\ reader' \in [Readers -> Readings]
  BY <1>1, <1>2 DEF Found, Readings
<1>5. CASE BeginReading(r)
  <2>1. CASE Read(r, [IdleReader EXCEPT !.kind = "prompt", !.pc = "version"])
    BY <1>1, <1>2, <1>3, <2>1 DEF Readings
  <2>2. CASE \E t \in Types :
            Read(r, [IdleReader EXCEPT !.kind = "start", !.pc = "default", !.type = t])
    BY <1>1, <1>2, <1>3, <2>2 DEF Readings
  <2>3. CASE \E s \in Scopes, id \in Ids \cup {NoModel} :
            Read(r, [IdleReader EXCEPT !.kind = "settings", !.pc = "base", !.scope = s,
                                       !.id = id])
    BY <1>1, <1>2, <1>3, <2>3 DEF Readings
  <2> QED BY <1>5, <2>1, <2>2, <2>3 DEF BeginReading, Scopes
<1>10. Reranking \in Readings
  BY <1>2 DEF Reranking, Readings
<1>11. CASE ReadBase(r)
  <2>1. PICK s \in Scopes, id \in Ids \cup {NoModel} :
          Read(r, IF id \in Ids
                  THEN [IdleReader EXCEPT !.kind = "answer", !.pc = "default of id",
                                          !.scope = s, !.id = id]
                  ELSE Reranking)
    BY <1>2, <1>11 DEF ReadBase, Readings, Scopes
  <2>2. [IdleReader EXCEPT !.kind = "answer", !.pc = "default of id", !.scope = s, !.id = id]
          \in Readings
    BY <1>2 DEF Readings
  <2>3. PICK rd \in Readings : Read(r, rd)
    BY <1>10, <2>1, <2>2
  <2> QED BY <1>1, <1>3, <2>3
<1>12. CASE ReadFails(r)
  <2>1. [reader[r] EXCEPT !.kind = "failed", !.pc = "done"] \in Readings
    BY <1>2 DEF Readings
  <2>2. PICK rd \in Readings : Read(r, rd)
    BY <1>10, <1>12, <2>1 DEF ReadFails
  <2> QED BY <1>1, <1>3, <2>2
<1>6. CASE ReadVersion(r) \/ ReadAnyVersion(r)
  <2>1. CASE ReadVersion(r)
    <3>1. (Asked \in active) \in BOOLEAN
      OBVIOUS
    <3> QED BY <1>3, <1>4, <2>1, <3>1 DEF ReadVersion
  <2>2. CASE ReadAnyVersion(r)
    <3>1. (active # {}) \in BOOLEAN
      OBVIOUS
    <3> QED BY <1>3, <1>4, <2>2, <3>1 DEF ReadAnyVersion
  <2> QED BY <1>6, <2>1, <2>2
<1>7. CASE ReadDefaultOfId(r) \/ ReadAnyOfId(r)
  BY <1>3, <1>4, <1>7 DEF ReadDefaultOfId, ReadAnyOfId
<1>8. CASE ReadDefault(r) \/ ReadLegacy(r)
  BY <1>3, <1>4, <1>8 DEF ReadDefault, ReadLegacy
<1>9. CASE EndReading(r)
  BY <1>1, <1>2, <1>3, <1>9 DEF EndReading
<1> QED BY <1>5, <1>6, <1>7, <1>8, <1>9, <1>11, <1>12 DEF Reads

LEMMA TypeStep == TypeOK /\ [Next]_vars => TypeOK'
<1> SUFFICES ASSUME TypeOK, [Next]_vars PROVE TypeOK'
  OBVIOUS
<1>1. Observe => had' \subseteq Types /\ excused' \subseteq Readers
  BY DEF Observe, TypeOK
<1>2. ASSUME NEW p \in Procs, Serve(p), Observe PROVE TypeOK'
  <2>1. PICK r : Becomes(p, r)
    BY <1>2, ServeTyped
  <2>2. req' \in [Procs -> Requests] /\ \A q \in Procs : NamesModel(req'[q])
    BY <2>1, OneRecord
  <2> QED BY <1>1, <1>2, <2>2, ServeTyped DEF TypeOK, RestTyped
<1>3. ASSUME NEW r \in Readers, Reads(r), Observe PROVE TypeOK'
  BY <1>1, <1>3, ReadsTyped DEF TypeOK, RestTyped
<1>4. CASE UNCHANGED vars
  BY <1>4 DEF TypeOK, vars, tables, history
<1> QED BY <1>2, <1>3, <1>4 DEF Next

\* Rows, settings, requests, readers and history have the types that TypeOK says: in
\* particular, a request never writes a row without a model id (the settings API).
THEOREM TypeCorrect == Spec => []TypeOK
  BY TypeInit, TypeStep, PTL DEF Spec

-----------------------------------------------------------------------------
(* The defaults *)

\* A read changes no row and no request.
LEMMA ReadsHarmless ==
    ASSUME SwitchInv, NEW r \in Readers, Reads(r), Observe
    PROVE  UniqueRows' /\ OneSource' /\ DefaultKept'
<1>1. UNCHANGED <<models, req, lost, crossed>>
  BY DEF Reads, BeginReading, ReadBase, ReadFails, ReadVersion, ReadAnyVersion,
         ReadDefaultOfId, ReadAnyOfId, ReadDefault, ReadLegacy, EndReading, Found, Read,
         tables
<1>2. \A t : Defaults(t)' = Defaults(t) /\ Halfways(t)' = Halfways(t)
  BY <1>1 DEF Defaults, DefaultsIn, Halfways, Halfway
<1>3. \A t \in had' : t \in had \/ Defaults(t)' # {}
  BY DEF Observe
<1> QED
  BY <1>1, <1>2, <1>3 DEF SwitchInv, UniqueRows, OneSource, DefaultKept

\* A request that begins is not halfway.
LEMMA BeginHarmless ==
    ASSUME SwitchInv, NEW p \in Procs,
           \/ BeginCreate(p) \/ BeginUpdate(p) \/ BeginSetDefault(p) \/ BeginDelete(p)
           \/ BeginActivate(p) \/ BeginConfigure(p)
    PROVE  Harmless(p)
<1>1. ASSUME NEW r, Begin(p, r), r.pc \in {"check", "fetch", "deactivate", "select"}
      PROVE  Harmless(p)
  <2>1. req'[p] = r /\ (\A q \in Procs \ {p} : req'[q] = req[q]) /\ req[p].pc = "idle"
    BY <1>1 DEF Begin, SwitchInv, TypeOK
  <2> QED BY <1>1, <2>1 DEF Harmless, Halfway, Begin, tables
<1>2. CASE BeginCreate(p)
  <2>1. PICK id \in Ids, t \in Types, on \in BOOLEAN :
          Begin(p, [Idle EXCEPT !.kind = "create", !.pc = "check", !.id = id, !.type = t,
                                !.on = on])
    BY <1>2 DEF BeginCreate
  <2> QED BY <1>1, <2>1 DEF Idle
<1>3. CASE BeginUpdate(p)
  <2>1. PICK id \in Ids, on \in BOOLEAN :
          Begin(p, [Idle EXCEPT !.kind = "update", !.pc = "fetch", !.id = id, !.on = on])
    BY <1>3 DEF BeginUpdate
  <2> QED BY <1>1, <2>1 DEF Idle
<1>4. CASE BeginSetDefault(p) \/ BeginDelete(p)
  <2>1. PICK id \in Ids :
          \/ Begin(p, [Idle EXCEPT !.kind = "default", !.pc = "fetch", !.id = id, !.on = TRUE])
          \/ Begin(p, [Idle EXCEPT !.kind = "delete", !.pc = "fetch", !.id = id])
    BY <1>4 DEF BeginSetDefault, BeginDelete
  <2> QED BY <1>1, <2>1 DEF Idle
<1>5. CASE BeginActivate(p)
  <2>1. PICK v \in Versions :
          Begin(p, [Idle EXCEPT !.kind = "activate", !.pc = "deactivate", !.version = v])
    BY <1>5 DEF BeginActivate
  <2> QED BY <1>1, <2>1 DEF Idle
<1>6. CASE BeginConfigure(p)
  <2>1. PICK kb \in KBs, id \in Ids \cup {NoModel} :
          Begin(p, [Idle EXCEPT !.kind = "configure", !.pc = "select", !.scope = kb, !.id = id])
    BY <1>6 DEF BeginConfigure
  <2> QED BY <1>1, <2>1 DEF Idle
<1> QED
  BY <1>2, <1>3, <1>4, <1>5, <1>6

\* Steps of a request that leave the rows alone, before and after a switch or in place of one.
LEMMA GoesOnHarmless ==
    ASSUME SwitchInv, NEW p \in Procs,
           \/ Stop(p) \/ CheckNew(p) \/ FetchModel(p) \/ CheckUse(p)
           \/ Deactivate(p) \/ Activate(p) \/ SelectSettings(p) \/ WriteSettings(p)
    PROVE  Harmless(p)
<1>1. Serve(p)
  BY DEF Serve
<1>2. PICK r : Becomes(p, r)
  BY <1>1, ServeTyped DEF SwitchInv
<1>3. req'[p] = r /\ \A q \in Procs \ {p} : req'[q] = req[q]
  BY <1>2, OneRecord DEF SwitchInv
<1>4. models' = models /\ crossed' = crossed /\ lost \subseteq lost'
  BY DEF Stop, CheckNew, FetchModel, CheckUse, Deactivate, Activate, SelectSettings,
         WriteSettings, tables
<1>5. req[p] \in Requests /\ (Answer(p) => req'[p] = Idle)
  BY DEF SwitchInv, TypeOK, Answer
<1>6. req[p] \in Requests /\ \A pc : Goto(p, pc) => req'[p].pc = pc /\ req'[p].on = req[p].on
  BY DEF SwitchInv, TypeOK, Goto, Requests
<1>9. Answer(p) => ~Halfway(p)'
  BY <1>5, IdleTyped DEF Halfway
<1>10. \A pc : Goto(p, pc) /\ pc # "set" /\ (pc = "insert" => ~req[p].on) => ~Halfway(p)'
  BY <1>6 DEF Halfway
<1>7. ~Halfway(p)'
  <2>1. CASE Stop(p) \/ Activate(p) \/ WriteSettings(p)
    BY <1>9, <2>1 DEF Stop, Activate, WriteSettings
  <2>2. CASE CheckNew(p)
    <3>1. \/ Answer(p)
          \/ req[p].on /\ Goto(p, "clear")
          \/ ~req[p].on /\ Goto(p, "insert")
      BY <1>6, <2>2 DEF CheckNew, Requests
    <3> QED BY <1>9, <1>10, <3>1
  <2>3. CASE FetchModel(p)
    <3>1. CASE Answer(p) \/ Goto(p, "check use")
      BY <1>9, <1>10, <3>1
    <3>2. ASSUME NEW m, req' = [req EXCEPT ![p].type = m.type,
                                           ![p].pc = IF req[p].on THEN "clear" ELSE "unset"]
          PROVE  ~Halfway(p)'
      BY <1>6, <3>2 DEF Halfway, Requests, SwitchInv, TypeOK
    <3> QED BY <2>3, <3>1, <3>2 DEF FetchModel
  <2>4. CASE CheckUse(p) \/ Deactivate(p) \/ SelectSettings(p)
    <3>1. \/ Answer(p) \/ Goto(p, "delete") \/ Goto(p, "activate")
          \/ Goto(p, "insert settings") \/ Goto(p, "update settings")
      BY <2>4 DEF CheckUse, Deactivate, SelectSettings
    <3> QED BY <1>9, <1>10, <3>1
  <2> QED BY <2>1, <2>2, <2>3, <2>4
<1>8. Halfway(p) => req[p].type \in lost'
  BY DEF Stop, CheckNew, FetchModel, CheckUse, Deactivate, Activate, SelectSettings,
         WriteSettings, Halfway
<1> QED
  BY <1>3, <1>4, <1>7, <1>8 DEF Harmless

\* The steps that change rows: they go on as ServeTyped says, so that only the thread's own
\* record and the rows change.
LEMMA RowSteps ==
    ASSUME SwitchInv, NEW p \in Procs,
           \/ ClearDefault(p) \/ SetDefault(p) \/ UnsetDefault(p) \/ InsertModel(p)
           \/ DeleteModel(p)
    PROVE  /\ \A q \in Procs \ {p} : req'[q] = req[q]
           /\ Answer(p) => ~Halfway(p)'
           /\ \A pc : Goto(p, pc) =>
                /\ req'[p].pc = pc /\ req'[p].on = req[p].on /\ req'[p].type = req[p].type
           /\ \A m \in models : m \in ModelRows
           /\ crossed \subseteq crossed' /\ lost \subseteq lost'
<1>1. Serve(p) /\ TypeOK /\ req[p] \in Requests
  BY DEF Serve, SwitchInv, TypeOK
<1>2. PICK r : Becomes(p, r)
  BY <1>1, ServeTyped
<1>3. \A q \in Procs \ {p} : req'[q] = req[q]
  BY <1>1, <1>2, OneRecord
<1>4. Answer(p) => ~Halfway(p)'
  BY <1>1, IdleTyped DEF Answer, Halfway, TypeOK
<1>5. \A pc : Goto(p, pc) =>
        req'[p].pc = pc /\ req'[p].on = req[p].on /\ req'[p].type = req[p].type
  BY <1>1 DEF Goto, TypeOK, Requests
<1>6. \A m \in models : m \in ModelRows
  BY <1>1 DEF TypeOK
<1>7. crossed \subseteq crossed' /\ lost \subseteq lost'
  BY DEF ClearDefault, SetDefault, UnsetDefault, InsertModel, DeleteModel
<1> QED BY <1>3, <1>4, <1>5, <1>6, <1>7

\* The first statement of a switch: the type has no default, and who was halfway already has
\* crossed this one.
LEMMA ClearDefaultKeeps ==
    ASSUME SwitchInv, NEW p \in Procs, ClearDefault(p), Observe
    PROVE  UniqueRows' /\ OneSource' /\ DefaultKept'
<1>0. PICK T : T = req[p].type
  OBVIOUS
<1> DEFINE Cleared(m) == [m EXCEPT !.default = @ /\ m.type # T]
<1>1. models' = {Cleared(m) : m \in models}
  BY <1>0 DEF ClearDefault
<1>2. \A m \in models : /\ Cleared(m) \in ModelRows /\ Cleared(m).id = m.id
                        /\ Cleared(m).type = m.type
                        /\ Cleared(m).default <=> m.default /\ m.type # T
  BY RowSteps DEF ModelRows
<1> HIDE DEF Cleared
<1>3. UniqueRows'
  BY <1>1, <1>2 DEF UniqueRows, SwitchInv
<1>4. Defaults(T)' = {} /\ \A t : t # T => Defaults(t)' = Defaults(t)
  <2>1. Defaults(T)' = {}
    BY <1>1, <1>2 DEF Defaults, DefaultsIn
  <2>2. ASSUME NEW t, t # T PROVE Defaults(t)' = Defaults(t)
    <3>1. \A m \in models : m.type = t => Cleared(m) = m
      BY <2>2, RowSteps DEF ModelRows, Cleared
    <3> QED BY <1>1, <1>2, <3>1 DEF Defaults, DefaultsIn
  <2> QED BY <2>1, <2>2
<1>5. ~Halfway(p) /\ Halfway(p)' /\ req'[p].type = T
  <2>1. req[p].pc = "clear" /\ req[p].on
    BY DEF ClearDefault, SwitchInv, TypeOK, NamesModel
  <2>2. Goto(p, "insert") \/ Goto(p, "set")
    BY DEF ClearDefault
  <2> QED BY <1>0, <2>1, <2>2, RowSteps DEF Halfway
<1>6. \A t \in Types : Halfways(t)' = IF t = T THEN Halfways(t) \cup {p} ELSE Halfways(t)
  BY <1>5, RowSteps DEF Halfways, Halfway
<1>7. Halfways(T) # {} => T \in crossed'
  BY <1>0 DEF ClearDefault, Switching, Halfways
<1>8. OneSource'
  <2>1. SUFFICES ASSUME NEW t \in Types \ crossed'
                 PROVE  /\ \A m, n \in Defaults(t)' : m = n
                        /\ \A q, r \in Halfways(t)' : q = r
                        /\ Halfways(t)' # {} => Defaults(t)' = {}
    BY DEF OneSource
  <2>2. CASE t = T
    BY <1>4, <1>6, <1>7, <2>2
  <2>3. CASE t # T
    BY <1>4, <1>6, <2>3, RowSteps DEF OneSource, SwitchInv
  <2> QED BY <2>2, <2>3
<1>9. DefaultKept'
  BY <1>4, <1>6, RowSteps DEF DefaultKept, SwitchInv, Observe, TypeOK
<1> QED BY <1>3, <1>8, <1>9

\* An answered request is not halfway, and no other is touched.
LEMMA AnsweredHalfways ==
    ASSUME SwitchInv, NEW p \in Procs, Answer(p),
           SetDefault(p) \/ UnsetDefault(p) \/ InsertModel(p) \/ DeleteModel(p)
    PROVE  \A t : Halfways(t)' = Halfways(t) \ {p}
  BY RowSteps DEF Halfways, Halfway

\* Fewer defaults, and none fewer of the types that are not lost.
LEMMA FewerDefaults ==
    ASSUME SwitchInv, NEW p \in Procs, Observe, ~Halfway(p),
           UnsetDefault(p) \/ DeleteModel(p),
           \A t \in Types : Defaults(t)' \subseteq Defaults(t),
           \A t \in Types \ lost' : Defaults(t)' = Defaults(t)
    PROVE  OneSource' /\ DefaultKept'
<1>1. Answer(p) /\ crossed' = crossed /\ lost \subseteq lost' /\ had' \subseteq Types
  BY DEF UnsetDefault, DeleteModel, SwitchInv, TypeOK, Observe
<1>2. \A t : Halfways(t)' = Halfways(t)
  BY <1>1, AnsweredHalfways DEF Halfways
<1>3. OneSource'
  BY <1>1, <1>2 DEF SwitchInv, OneSource
<1>4. DefaultKept'
  BY <1>1, <1>2 DEF SwitchInv, DefaultKept, Observe
<1> QED BY <1>3, <1>4

LEMMA UnsetDefaultKeeps ==
    ASSUME SwitchInv, NEW p \in Procs, UnsetDefault(p), Observe
    PROVE  UniqueRows' /\ OneSource' /\ DefaultKept'
<1>0. PICK I : I = req[p].id
  OBVIOUS
<1> DEFINE Unset(m) == [m EXCEPT !.default = @ /\ m.id # I]
<1>1. models' = {Unset(m) : m \in models}
  BY <1>0 DEF UnsetDefault
<1>2. \A m \in models : /\ Unset(m).id = m.id /\ Unset(m).type = m.type
                        /\ Unset(m).default <=> m.default /\ m.id # I
                        /\ m.id # I => Unset(m) = m
  BY RowSteps DEF ModelRows
<1> HIDE DEF Unset
<1>3. UniqueRows'
  BY <1>1, <1>2 DEF UniqueRows, SwitchInv
<1>4. \A t \in Types : Defaults(t)' \subseteq Defaults(t)
  BY <1>1, <1>2 DEF Defaults, DefaultsIn
<1>5. \A t \in Types \ lost', m \in models : m.type = t => m.id # I
  BY <1>0 DEF UnsetDefault, RowsOf
<1>6. \A t \in Types \ lost' : Defaults(t)' = Defaults(t)
  BY <1>1, <1>2, <1>5 DEF Defaults, DefaultsIn
<1>7. ~Halfway(p)
  BY DEF UnsetDefault, Halfway
<1> QED BY <1>3, <1>4, <1>6, <1>7, FewerDefaults

LEMMA DeleteModelKeeps ==
    ASSUME SwitchInv, NEW p \in Procs, DeleteModel(p), Observe
    PROVE  UniqueRows' /\ OneSource' /\ DefaultKept'
<1>1. models' \subseteq models
  BY DEF DeleteModel
<1>2. UniqueRows'
  BY <1>1 DEF UniqueRows, SwitchInv
<1>3. \A t \in Types : Defaults(t)' \subseteq Defaults(t)
  BY <1>1 DEF Defaults, DefaultsIn
<1>4. \A t \in Types \ lost' : Defaults(t)' = Defaults(t)
  BY DEF DeleteModel, Defaults, DefaultsIn, RowsOf
<1>5. ~Halfway(p)
  BY DEF DeleteModel, Halfway
<1> QED BY <1>2, <1>3, <1>4, <1>5, FewerDefaults

\* The second statement of a switch: the row becomes the only default, or is not there and
\* the type is lost; a row of another type with the id makes that type crossed.
LEMMA SetDefaultKeeps ==
    ASSUME SwitchInv, NEW p \in Procs, SetDefault(p), Observe
    PROVE  UniqueRows' /\ OneSource' /\ DefaultKept'
<1>0. PICK I, T : I = req[p].id /\ T = req[p].type
  OBVIOUS
<1> DEFINE Made(m) == [m EXCEPT !.default = @ \/ m.id = I]
<1>1. models' = {Made(m) : m \in models}
  BY <1>0 DEF SetDefault
<1>2. \A m \in models : /\ Made(m).id = m.id /\ Made(m).type = m.type
                        /\ Made(m).default <=> m.default \/ m.id = I
                        /\ m.id # I => Made(m) = m
  BY RowSteps DEF ModelRows
<1> HIDE DEF Made
<1>3. UniqueRows'
  BY <1>1, <1>2 DEF UniqueRows, SwitchInv
<1>4. \A t : Halfways(t)' = Halfways(t) \ {p}
  BY AnsweredHalfways DEF SetDefault
<1>5. \A t : p \in Halfways(t) <=> t = T
  BY <1>0 DEF Halfways, Halfway, SetDefault
<1>6. ASSUME NEW t \in Types \ crossed', t # T
      PROVE  Defaults(t)' = Defaults(t)
  <2>1. \A m \in models : m.type = t => m.id # I
    BY <1>0, <1>6 DEF SetDefault, RowsOf
  <2> QED BY <1>1, <1>2, <2>1 DEF Defaults, DefaultsIn
<1>7. OneSource'
  <2>1. SUFFICES ASSUME NEW t \in Types \ crossed'
                 PROVE  /\ \A m, n \in Defaults(t)' : m = n
                        /\ \A q, r \in Halfways(t)' : q = r
                        /\ Halfways(t)' # {} => Defaults(t)' = {}
    BY DEF OneSource
  <2>2. crossed \subseteq crossed'
    BY RowSteps
  <2>3. CASE t = T
    <3>1. Defaults(T) = {} /\ Halfways(T)' = {}
      BY <1>4, <1>5, <2>2, <2>3 DEF OneSource, SwitchInv
    <3>2. \A m \in Defaults(T)' : m.id = I /\ m.type = T /\ m \in models'
      BY <1>1, <1>2, <3>1 DEF Defaults, DefaultsIn
    <3> QED BY <1>3, <2>3, <3>1, <3>2 DEF UniqueRows
  <2>4. CASE t # T
    BY <1>4, <1>5, <1>6, <2>2, <2>4 DEF OneSource, SwitchInv
  <2> QED BY <2>3, <2>4
<1>8. DefaultKept'
  <2>1. SUFFICES ASSUME NEW t \in had' \ lost' PROVE Defaults(t)' # {} \/ Halfways(t)' # {}
    BY DEF DefaultKept
  <2>2. CASE t = T
    <3>1. \E m \in models : m.id = I /\ m.type = T
      BY <1>0, <2>2 DEF SetDefault, RowsOf
    <3> QED BY <1>1, <1>2, <2>2, <3>1 DEF Defaults, DefaultsIn
  <2>3. CASE t # T /\ t \in had
    <3>1. t \in had \ lost
      BY <2>3, RowSteps
    <3>2. Defaults(t) # {} => Defaults(t)' # {}
      BY <1>1, <1>2 DEF Defaults, DefaultsIn
    <3> QED BY <1>4, <1>5, <2>3, <3>1, <3>2 DEF DefaultKept, SwitchInv
  <2>4. t \in had \/ Defaults(t)' # {}
    BY DEF Observe
  <2> QED BY <2>2, <2>3, <2>4
<1> QED BY <1>3, <1>7, <1>8

\* A creation inserts its row as the only default, if it cleared the others, or fails on a row
\* that is there, and the type is lost.
LEMMA InsertModelKeeps ==
    ASSUME SwitchInv, NEW p \in Procs, InsertModel(p), Observe
    PROVE  UniqueRows' /\ OneSource' /\ DefaultKept'
<1>0. PICK I, T, on : I = req[p].id /\ T = req[p].type /\ on = req[p].on /\ on \in BOOLEAN
  BY DEF SwitchInv, TypeOK, Requests
<1>1. Answer(p) /\ crossed' = crossed /\ lost \subseteq lost'
  BY DEF InsertModel
<1>2. CASE \E m \in RowsOf(I) : m.type = T
  <2>1. models' = models /\ (on => T \in lost')
    BY <1>0, <1>2 DEF InsertModel
  <2>2. Harmless(p)
    BY <1>0, <1>1, <2>1, RowSteps DEF Harmless, Halfway, InsertModel
  <2> QED BY <2>2, HarmlessStep
<1>3. CASE ~\E m \in RowsOf(I) : m.type = T
  <2> DEFINE new == [id |-> I, type |-> T, default |-> on]
  <2>1. models' = models \cup {new} /\ lost' = lost
    BY <1>0, <1>3 DEF InsertModel
  <2>2. new.id = I /\ new.type = T /\ new.default = on
    OBVIOUS
  <2> HIDE DEF new
  <2>3. UniqueRows'
    BY <1>3, <2>1, <2>2 DEF UniqueRows, SwitchInv, RowsOf
  <2>4. \A t : Defaults(t)' = IF t = T /\ on THEN Defaults(t) \cup {new} ELSE Defaults(t)
    BY <2>1, <2>2 DEF Defaults, DefaultsIn
  <2>5. \A t : Halfways(t)' = Halfways(t) \ {p}
    BY <1>1, AnsweredHalfways
  <2>6. \A t : p \in Halfways(t) <=> on /\ t = T
    BY <1>0 DEF Halfways, Halfway, InsertModel
  <2>7. OneSource'
    <3>1. SUFFICES ASSUME NEW t \in Types \ crossed
                   PROVE  /\ \A m, n \in Defaults(t)' : m = n
                          /\ \A q, r \in Halfways(t)' : q = r
                          /\ Halfways(t)' # {} => Defaults(t)' = {}
      BY <1>1 DEF OneSource
    <3>2. CASE t = T /\ on
      BY <2>4, <2>5, <2>6, <3>2 DEF OneSource, SwitchInv
    <3>3. CASE ~(t = T /\ on)
      BY <2>4, <2>5, <2>6, <3>3 DEF OneSource, SwitchInv
    <3> QED BY <3>2, <3>3
  <2>8. DefaultKept'
    BY <2>1, <2>4, <2>5, <2>6 DEF DefaultKept, SwitchInv, Observe
  <2> QED BY <2>3, <2>7, <2>8
<1> QED BY <1>2, <1>3

-----------------------------------------------------------------------------
(* The theorems *)

LEMMA SwitchInvInit == Init => SwitchInv
<1> SUFFICES ASSUME Init PROVE SwitchInv
  OBVIOUS
<1>1. \A t : Halfways(t) = {}
  BY IdleTyped DEF Init, Halfways, Halfway
<1>2. UniqueRows
  BY ModelSettingsAssumption DEF Init, UniqueRows
<1>3. OneSource
  BY <1>1, ModelSettingsAssumption DEF Init, OneSource, Defaults, DefaultsIn
<1>4. DefaultKept
  BY DEF Init, DefaultKept, Defaults
<1> QED BY <1>2, <1>3, <1>4, TypeInit DEF SwitchInv

LEMMA SwitchInvStep == SwitchInv /\ [Next]_vars => SwitchInv'
<1> SUFFICES ASSUME SwitchInv, [Next]_vars PROVE SwitchInv'
  OBVIOUS
<1>1. TypeOK'
  BY TypeStep DEF SwitchInv
<1>2. ASSUME NEW p \in Procs, Serve(p), Observe
      PROVE  UniqueRows' /\ OneSource' /\ DefaultKept'
  <2>1. CASE \/ BeginCreate(p) \/ BeginUpdate(p) \/ BeginSetDefault(p) \/ BeginDelete(p)
             \/ BeginActivate(p) \/ BeginConfigure(p)
    BY <1>2, <2>1, BeginHarmless, HarmlessStep
  <2>2. CASE \/ Stop(p) \/ CheckNew(p) \/ FetchModel(p) \/ CheckUse(p)
             \/ Deactivate(p) \/ Activate(p) \/ SelectSettings(p) \/ WriteSettings(p)
    BY <1>2, <2>2, GoesOnHarmless, HarmlessStep
  <2>3. CASE ClearDefault(p)
    BY <1>2, <2>3, ClearDefaultKeeps
  <2>4. CASE SetDefault(p)
    BY <1>2, <2>4, SetDefaultKeeps
  <2>5. CASE UnsetDefault(p)
    BY <1>2, <2>5, UnsetDefaultKeeps
  <2>6. CASE InsertModel(p)
    BY <1>2, <2>6, InsertModelKeeps
  <2>7. CASE DeleteModel(p)
    BY <1>2, <2>7, DeleteModelKeeps
  <2> QED
    BY <1>2, <2>1, <2>2, <2>3, <2>4, <2>5, <2>6, <2>7 DEF Serve
<1>3. ASSUME NEW r \in Readers, Reads(r), Observe
      PROVE  UniqueRows' /\ OneSource' /\ DefaultKept'
  BY <1>3, ReadsHarmless
<1>4. CASE UNCHANGED vars
  <2>1. \A t : Defaults(t)' = Defaults(t) /\ Halfways(t)' = Halfways(t)
    BY <1>4 DEF vars, tables, Defaults, DefaultsIn, Halfways, Halfway
  <2> QED BY <1>1, <1>4, <2>1 DEF vars, tables, history, SwitchInv, UniqueRows, OneSource,
                                  DefaultKept
<1> QED BY <1>1, <1>2, <1>3, <1>4 DEF Next, SwitchInv

LEMMA SwitchInvImpliesOneDefault == SwitchInv => OneDefault
<1> SUFFICES ASSUME SwitchInv, NEW t \in Types
             PROVE  /\ t \in had /\ t \notin lost /\ ~Switching(t) => Defaults(t) # {}
                    /\ t \notin crossed => Cardinality(Defaults(t)) <= 1
  BY DEF OneDefault
<1>1. t \in had /\ t \notin lost /\ ~Switching(t) => Defaults(t) # {}
  BY DEF SwitchInv, DefaultKept, Switching, Halfways
<1>2. ASSUME t \notin crossed PROVE Cardinality(Defaults(t)) <= 1
  <2>1. CASE Defaults(t) = {}
    BY <2>1, FS_EmptySet
  <2>2. CASE \E m : Defaults(t) = {m}
    BY <2>2, FS_Singleton
  <2>3. \A m \in Defaults(t) : Defaults(t) = {m}
    BY <1>2 DEF SwitchInv, OneSource
  <2> QED BY <2>1, <2>2, <2>3
<1> QED BY <1>1, <1>2

\* A type keeps a default through every overlap of switches, creations, updates and deletions,
\* and has no second one, up to what OneDefault excepts (the settings API's two-statement
\* switches).
THEOREM TypesKeepOneDefault == Spec => []OneDefault
  BY SwitchInvInit, SwitchInvStep, SwitchInvImpliesOneDefault, PTL DEF Spec

-----------------------------------------------------------------------------
(* What the readers find *)

\* A prompt is active, or about to be, or a failure took the last.
PromptKept == active # {} \/ Activating \/ "prompt" \in lost

\* The model of settings that are not loose is there, and nobody is about to delete it.
ReferenceKept ==
    \A s \in Scopes \ loose :
        settings[s] \in Ids =>
            /\ RowsOf(settings[s]) # {}
            /\ \A p \in Procs : req[p].pc = "delete" => req[p].id # settings[s]

\* What a reader looks for by its step; one that did not find it is excused already when it
\* goes on to a last resort or ends.
ReadersExcused ==
    \A r \in Readers :
        /\ reader[r].pc \in {"version", "any version"} => reader[r].kind = "prompt"
        /\ reader[r].pc \in {"default", "legacy"} => reader[r].kind \in {"start", "rerank"}
        /\ reader[r].pc \in {"default of id", "any of id"} =>
              reader[r].kind = "answer" /\ reader[r].id \in Ids
        /\ reader[r].pc = "legacy" => r \in excused
        /\ reader[r].pc = "done" /\ reader[r].kind # "failed" /\ ~reader[r].found
              => r \in excused

ReadInv == SwitchInv /\ PromptKept /\ ReferenceKept /\ ReadersExcused

\* A reader that does not find what it looks for is in a state where NotToBeFound holds.
Explained(r) ==
    /\ reader[r].kind = "prompt" /\ active = {} => NotToBeFound(r)
    /\ reader[r].kind \in {"start", "rerank"} /\ Defaults(reader[r].type) = {}
         => NotToBeFound(r)
    /\ reader[r].kind = "answer" /\ reader[r].id \in Ids /\ RowsOf(reader[r].id) = {}
         => NotToBeFound(r)

AllExplained == \A r \in Readers : Explained(r)

LEMMA NothingToFind == SwitchInv /\ PromptKept /\ ReferenceKept => AllExplained
<1> SUFFICES ASSUME SwitchInv, PromptKept, ReferenceKept, NEW r \in Readers
             PROVE  Explained(r)
  BY DEF AllExplained
<1>1. reader[r] \in Readings
  BY DEF SwitchInv, TypeOK
<1>2. ASSUME reader[r].kind = "prompt", active = {} PROVE NotToBeFound(r)
  BY <1>2 DEF PromptKept, NotToBeFound
<1>3. ASSUME reader[r].kind \in {"start", "rerank"}, Defaults(reader[r].type) = {}
      PROVE  NotToBeFound(r)
  <2>1. \/ reader[r].type \notin had \/ reader[r].type \in lost
        \/ Halfways(reader[r].type) # {}
    BY <1>1, <1>3 DEF SwitchInv, DefaultKept
  <2>2. Halfways(reader[r].type) # {} => Switching(reader[r].type)
    BY DEF Halfways, Switching
  <2> QED BY <1>3, <2>1, <2>2 DEF NotToBeFound
<1>4. ASSUME reader[r].kind = "answer", reader[r].id \in Ids, RowsOf(reader[r].id) = {}
      PROVE  NotToBeFound(r)
  <2>1. reader[r].scope \in Scopes
    BY <1>1 DEF Readings
  <2> QED BY <1>4, <2>1 DEF ReferenceKept, NotToBeFound
<1> QED BY <1>2, <1>3, <1>4 DEF Explained

\* A thread's step leaves the others' requests and the readers alone and forgets no loss.
LEMMA ServeFrame ==
    ASSUME TypeOK, NEW p \in Procs, Serve(p)
    PROVE  /\ \A q \in Procs \ {p} : req'[q] = req[q]
           /\ Answer(p) => req'[p] = Idle
           /\ \A pc : Goto(p, pc) => req'[p].pc = pc /\ req'[p].id = req[p].id
           /\ UNCHANGED reader /\ lost \subseteq lost'
<1>1. \A q \in Procs \ {p} : req'[q] = req[q]
  BY ServeTyped, OneRecord
<1>2. Answer(p) => req'[p] = Idle
  BY DEF Answer, TypeOK
<1>3. \A pc : Goto(p, pc) => req'[p].pc = pc /\ req'[p].id = req[p].id
  BY DEF Goto, TypeOK, Requests
<1>4. lost \subseteq lost'
  BY DEF Serve, Begin, BeginCreate, BeginUpdate, BeginSetDefault, BeginDelete, BeginActivate,
         BeginConfigure, Stop, CheckNew, FetchModel, ClearDefault, SetDefault, UnsetDefault,
         InsertModel, CheckUse, DeleteModel, Deactivate, Activate, SelectSettings, WriteSettings
<1> QED BY <1>1, <1>2, <1>3, <1>4, ServeTyped

LEMMA PromptStep ==
    ASSUME TypeOK, PromptKept, NEW p \in Procs, Serve(p)
    PROVE  PromptKept'
<1>1. CASE Deactivate(p)
  BY <1>1, ServeFrame DEF Deactivate, PromptKept, Activating
<1>2. CASE Activate(p)
  BY <1>2 DEF Activate, PromptKept
<1>3. CASE Stop(p)
  BY <1>3, ServeFrame DEF Stop, tables, PromptKept, Activating
<1>4. CASE ~Deactivate(p) /\ ~Activate(p) /\ ~Stop(p)
  <2>1. active' = active /\ req[p].pc # "activate"
    BY <1>4 DEF Serve, Begin, BeginCreate, BeginUpdate, BeginSetDefault, BeginDelete,
                BeginActivate, BeginConfigure, CheckNew, FetchModel, ClearDefault, SetDefault,
                UnsetDefault, InsertModel, CheckUse, DeleteModel, SelectSettings, WriteSettings,
                tables
  <2> QED BY <2>1, ServeFrame DEF PromptKept, Activating
<1> QED BY <1>1, <1>2, <1>3, <1>4

\* Rows of an id stay, settings and loose as they were, and nobody new is about to delete.
LEMMA ReferenceStays ==
    ASSUME ReferenceKept, NEW p \in Procs, settings' = settings, loose' = loose,
           \A q \in Procs \ {p} : req'[q] = req[q], req'[p].pc # "delete",
           \A s \in Scopes \ loose :
              settings[s] \in Ids /\ RowsOf(settings[s]) # {} => RowsOf(settings[s])' # {}
    PROVE  ReferenceKept'
<1> SUFFICES ASSUME NEW s \in Scopes, s \notin loose, settings[s] \in Ids
             PROVE  /\ RowsOf(settings[s])' # {}
                    /\ \A q \in Procs : req'[q].pc = "delete" => req'[q].id # settings[s]
  BY DEF ReferenceKept
<1> QED BY DEF ReferenceKept

\* Where a request goes that is not answered: to delete only from the check of the settings.
LEMMA NotToDelete ==
    ASSUME TypeOK, NEW p \in Procs, Serve(p), ~CheckUse(p)
    PROVE  req'[p].pc # "delete"
<1>1. req[p] \in Requests /\ Idle.pc = "idle"
  BY IdleTyped DEF TypeOK
<1>2. CASE \/ BeginCreate(p) \/ BeginUpdate(p) \/ BeginSetDefault(p) \/ BeginDelete(p)
           \/ BeginActivate(p) \/ BeginConfigure(p)
  <2>1. \A r : Begin(p, r) => req'[p] = r
    BY DEF Begin, TypeOK
  <2> QED BY <1>2, <2>1 DEF BeginCreate, BeginUpdate, BeginSetDefault, BeginDelete,
                            BeginActivate, BeginConfigure, Idle
<1>3. CASE CheckNew(p)
  BY <1>1, <1>3, ServeFrame DEF CheckNew
<1>4. CASE FetchModel(p)
  <2>1. CASE Answer(p) \/ Goto(p, "check use")
    <3>1. req'[p] = Idle \/ req'[p].pc = "check use"
      BY <2>1, ServeFrame
    <3> QED BY <1>1, <3>1
  <2>2. ASSUME NEW m, req' = [req EXCEPT ![p].type = m.type,
                                         ![p].pc = IF req[p].on THEN "clear" ELSE "unset"]
        PROVE  req'[p].pc # "delete"
    BY <1>1, <2>2 DEF Requests, TypeOK
  <2> QED BY <1>4, <2>1, <2>2 DEF FetchModel
<1>5. CASE Stop(p) \/ SetDefault(p) \/ UnsetDefault(p) \/ InsertModel(p) \/ DeleteModel(p)
           \/ Activate(p) \/ WriteSettings(p)
  BY <1>1, <1>5, ServeFrame DEF Stop, SetDefault, UnsetDefault, InsertModel, DeleteModel,
                                Activate, WriteSettings
<1>6. CASE ClearDefault(p) \/ Deactivate(p) \/ SelectSettings(p)
  <2>1. \E pc \in {"insert", "set", "activate", "insert settings", "update settings"} :
          Goto(p, pc)
    BY <1>6 DEF ClearDefault, Deactivate, SelectSettings
  <2> QED BY <2>1, ServeFrame
<1> QED BY <1>2, <1>3, <1>4, <1>5, <1>6 DEF Serve

\* A statement that changes defaults keeps the ids of the rows.
LEMMA RowsStay ==
    ASSUME TypeOK, NEW p \in Procs, NEW id, RowsOf(id) # {},
           \/ models' = models \/ ClearDefault(p) \/ SetDefault(p) \/ UnsetDefault(p)
           \/ InsertModel(p)
    PROVE  RowsOf(id)' # {}
<1>1. PICK m \in models : m.id = id
  BY DEF RowsOf
<1>2. \A d : [m EXCEPT !.default = d].id = id
  BY <1>1 DEF TypeOK, ModelRows
<1>3. CASE models' = models \/ InsertModel(p)
  BY <1>1, <1>3 DEF InsertModel, RowsOf
<1>4. CASE ClearDefault(p) \/ SetDefault(p) \/ UnsetDefault(p)
  <2>1. CASE ClearDefault(p)
    <3>1. [m EXCEPT !.default = @ /\ m.type # req[p].type] \in models'
      BY <1>1, <2>1 DEF ClearDefault
    <3> QED BY <1>2, <3>1 DEF RowsOf
  <2>2. CASE SetDefault(p)
    <3>1. [m EXCEPT !.default = @ \/ m.id = req[p].id] \in models'
      BY <1>1, <2>2 DEF SetDefault
    <3> QED BY <1>2, <3>1 DEF RowsOf
  <2>3. CASE UnsetDefault(p)
    <3>1. [m EXCEPT !.default = @ /\ m.id # req[p].id] \in models'
      BY <1>1, <2>3 DEF UnsetDefault
    <3> QED BY <1>2, <3>1 DEF RowsOf
  <2> QED BY <1>4, <2>1, <2>2, <2>3
<1> QED BY <1>3, <1>4

LEMMA ReferenceStep ==
    ASSUME TypeOK, ReferenceKept, NEW p \in Procs, Serve(p)
    PROVE  ReferenceKept'
<1>1. CASE CheckUse(p)
  <2>1. CASE Answer(p)
    <3>1. req'[p].pc # "delete"
      BY <2>1, ServeFrame, IdleTyped
    <3> QED BY <1>1, <3>1, ServeFrame, RowsStay, ReferenceStays DEF CheckUse, tables
  <2>2. CASE ~Answer(p)
    <3>1. Goto(p, "delete") /\ \A s \in Scopes : settings[s] # req[p].id
      BY <1>1, <2>2 DEF CheckUse
    <3>2. req'[p].id = req[p].id /\ \A q \in Procs \ {p} : req'[q] = req[q]
      BY <3>1, ServeFrame
    <3>3. models' = models /\ settings' = settings /\ loose' = loose
      BY <1>1 DEF CheckUse, tables
    <3>4. \A id : RowsOf(id)' = RowsOf(id)
      BY <3>3 DEF RowsOf
    <3> QED BY <3>1, <3>2, <3>3, <3>4 DEF ReferenceKept
  <2> QED BY <2>1, <2>2
<1>2. CASE DeleteModel(p)
  <2>1. req[p].pc = "delete" /\ settings' = settings /\ loose' = loose
    BY <1>2 DEF DeleteModel
  <2>2. \A s \in Scopes \ loose : settings[s] \in Ids =>
          RowsOf(settings[s]) # {} /\ settings[s] # req[p].id
    BY <2>1 DEF ReferenceKept
  <2>3. \A id : id # req[p].id => RowsOf(id)' = RowsOf(id)
    BY <1>2 DEF DeleteModel, RowsOf
  <2>4. req'[p].pc # "delete"
    BY <1>2, NotToDelete DEF DeleteModel, CheckUse
  <2> QED BY <2>1, <2>2, <2>3, <2>4, ServeFrame, ReferenceStays
<1>3. CASE WriteSettings(p)
  <2>1. req'[p].pc # "delete" /\ models' = models /\ req[p].pc # "delete"
    BY <1>3, NotToDelete DEF WriteSettings, CheckUse
  <2>2. \A id : RowsOf(id)' = RowsOf(id)
    BY <2>1 DEF RowsOf
  <2>3. CASE settings' = settings /\ loose' = loose
    BY <2>1, <2>2, <2>3, ServeFrame, ReferenceStays
  <2>4. CASE ~(settings' = settings /\ loose' = loose)
    <3>0. PICK S, I : S = req[p].scope /\ I = req[p].id
      OBVIOUS
    <3>1. /\ settings' = [settings EXCEPT ![S] = I]
          /\ loose' = IF IsLoose(I) THEN loose \cup {S} ELSE loose \ {S}
      BY <1>3, <2>4, <3>0 DEF WriteSettings
    <3>2. S \in Scopes
      BY <3>0 DEF TypeOK, Requests
    <3>3. ~IsLoose(I) /\ I \in Ids =>
            /\ RowsOf(I) # {}
            /\ \A q \in Procs : req[q].pc = "delete" => req[q].id # I
      BY DEF IsLoose
    <3>4. settings'[S] = I /\ \A s \in Scopes \ {S} : settings'[s] = settings[s]
      BY <3>1, <3>2 DEF TypeOK
    <3>5. S \in Scopes \ loose' => ~IsLoose(I)
      BY <3>1, <3>2
    <3>6. \A s \in Scopes \ loose' : s # S => s \notin loose
      BY <3>1
    <3>7. \A q \in Procs : req'[q].pc = "delete" => req'[q] = req[q]
      BY <2>1, ServeFrame
    <3>8. ASSUME NEW s \in Scopes \ loose', settings'[s] \in Ids
          PROVE  /\ RowsOf(settings'[s]) # {}
                 /\ \A q \in Procs : req[q].pc = "delete" => req[q].id # settings'[s]
      <4>1. CASE s = S
        BY <3>3, <3>4, <3>5, <3>8, <4>1
      <4>2. CASE s # S
        BY <3>4, <3>6, <3>8, <4>2 DEF ReferenceKept
      <4> QED BY <4>1, <4>2
    <3>9. \A s \in Scopes : RowsOf(settings[s])' = RowsOf(settings'[s])
      BY <2>1 DEF RowsOf
    <3> QED BY <3>7, <3>8, <3>9 DEF ReferenceKept
  <2> QED BY <2>3, <2>4
<1>4. CASE ~CheckUse(p) /\ ~DeleteModel(p) /\ ~WriteSettings(p)
  <2>1. settings' = settings /\ loose' = loose
    BY <1>4 DEF Serve, Begin, BeginCreate, BeginUpdate, BeginSetDefault, BeginDelete,
                BeginActivate, BeginConfigure, Stop, CheckNew, FetchModel, ClearDefault,
                SetDefault, UnsetDefault, InsertModel, Deactivate, Activate, SelectSettings,
                tables
  <2>2. \/ models' = models \/ ClearDefault(p) \/ SetDefault(p) \/ UnsetDefault(p)
        \/ InsertModel(p)
    BY <1>4 DEF Serve, Begin, BeginCreate, BeginUpdate, BeginSetDefault, BeginDelete,
                BeginActivate, BeginConfigure, Stop, CheckNew, FetchModel, Deactivate,
                Activate, SelectSettings, tables
  <2>3. \A s \in Scopes : RowsOf(settings[s]) # {} => RowsOf(settings[s])' # {}
    <3> SUFFICES ASSUME NEW s \in Scopes, RowsOf(settings[s]) # {}
                 PROVE  RowsOf(settings[s])' # {}
      OBVIOUS
    <3>1. PICK I : I = settings[s]
      OBVIOUS
    <3>2. RowsOf(I)' # {}
      BY <2>2, <3>1, RowsStay
    <3>3. I = settings'[s]
      BY <2>1, <3>1
    <3> QED BY <3>2, <3>3 DEF RowsOf
  <2> QED BY <1>4, <2>1, <2>3, NotToDelete, ServeFrame, ReferenceStays
<1> QED BY <1>1, <1>2, <1>3, <1>4

\* A read leaves the tables, the requests and the other readers alone.
LEMMA ReadsFrame ==
    ASSUME ReadInv, NEW r \in Readers, Reads(r), Observe
    PROVE  /\ PromptKept' /\ ReferenceKept'
           /\ \A q \in Readers \ {r} : reader'[q] = reader[q]
           /\ \A rd : Read(r, rd) => reader'[r] = rd
<1>1. UNCHANGED <<tables, req, lost, loose>>
  BY DEF Reads, BeginReading, ReadBase, ReadFails, ReadVersion, ReadAnyVersion,
         ReadDefaultOfId, ReadAnyOfId, ReadDefault, ReadLegacy, EndReading, Found, Read
<1>2. PromptKept'
  BY <1>1 DEF tables, ReadInv, PromptKept, Activating
<1>3. ReferenceKept'
  BY <1>1 DEF tables, ReadInv, ReferenceKept, RowsOf
<1>4. \A rd : Read(r, rd) => reader'[r] = rd /\ \A q \in Readers \ {r} : reader'[q] = reader[q]
  BY DEF Read, ReadInv, SwitchInv, TypeOK
<1>5. \E rd : Read(r, rd)
  BY DEF Reads, BeginReading, ReadBase, ReadFails, ReadVersion, ReadAnyVersion,
         ReadDefaultOfId, ReadAnyOfId, ReadDefault, ReadLegacy, EndReading, Found
<1> QED BY <1>2, <1>3, <1>4, <1>5

\* What ReadersExcused says of one reader
Excused(r) ==
    /\ reader[r].pc \in {"version", "any version"} => reader[r].kind = "prompt"
    /\ reader[r].pc \in {"default", "legacy"} => reader[r].kind \in {"start", "rerank"}
    /\ reader[r].pc \in {"default of id", "any of id"} =>
          reader[r].kind = "answer" /\ reader[r].id \in Ids
    /\ reader[r].pc = "legacy" => r \in excused
    /\ reader[r].pc = "done" /\ reader[r].kind # "failed" /\ ~reader[r].found => r \in excused

\* A reader that found something, or goes on to look elsewhere, or is excused by what the step
\* shows.
LEMMA FoundExcused ==
    ASSUME ReadInv, NEW r \in Readers, Observe, Reads(r), NEW yes \in BOOLEAN,
           NEW next \in {"done", "any version", "any of id", "legacy"},
           Found(r, yes, next),
           next = "any version" => reader[r].kind = "prompt",
           next = "any of id" => reader[r].kind = "answer" /\ reader[r].id \in Ids,
           next = "legacy" => reader[r].kind \in {"start", "rerank"},
           ~yes /\ next \in {"done", "legacy"} => r \in excused \/ NotToBeFound(r)'
    PROVE  Excused(r)'
<1>1. reader[r] \in Readings
  BY DEF ReadInv, SwitchInv, TypeOK
<1>2. reader'[r] = [reader[r] EXCEPT !.pc = IF yes THEN "done" ELSE next, !.found = yes]
  BY ReadsFrame DEF Found
<1>3. /\ reader'[r].pc = IF yes THEN "done" ELSE next
      /\ reader'[r].kind = reader[r].kind /\ reader'[r].id = reader[r].id
  BY <1>1, <1>2 DEF Readings
<1>4. reader'[r].found = yes
  BY <1>1, <1>2 DEF Readings
<1>5. reader'[r].pc # "idle"
  BY <1>3
<1>6. ~yes /\ next \in {"done", "legacy"} => r \in excused'
  BY <1>5 DEF Observe
<1>7. CASE yes
  BY <1>3, <1>4, <1>7 DEF Excused
<1>8. CASE ~yes
  BY <1>3, <1>6, <1>8 DEF Excused
<1> QED BY <1>7, <1>8

LEMMA ReaderStep ==
    ASSUME ReadInv, NEW r \in Readers, Reads(r), Observe, SwitchInv'
    PROVE  Excused(r)'
<1>1. reader[r] \in Readings /\ reader'[r] \in Readings /\ Excused(r)
  BY DEF ReadInv, SwitchInv, TypeOK, ReadersExcused, Excused
<1>2. PromptKept' /\ ReferenceKept'
  BY ReadsFrame
<1>3. Explained(r)'
  <2>1. SwitchInv' /\ PromptKept' /\ ReferenceKept' => AllExplained'
    BY NothingToFind, PTL
  <2> QED BY <1>2, <2>1 DEF AllExplained
<1>4. UNCHANGED tables /\ \A yes, next : Found(r, yes, next) =>
        /\ reader'[r].kind = reader[r].kind /\ reader'[r].id = reader[r].id
        /\ reader'[r].type = reader[r].type
  <2>1. UNCHANGED tables
    BY DEF Reads, BeginReading, ReadBase, ReadFails, ReadVersion, ReadAnyVersion,
           ReadDefaultOfId, ReadAnyOfId, ReadDefault, ReadLegacy, EndReading, Found, Read
  <2>2. ASSUME NEW yes, NEW next, Found(r, yes, next)
        PROVE  reader'[r] = [reader[r] EXCEPT !.pc = IF yes THEN "done" ELSE next,
                                              !.found = yes]
    BY <2>2, ReadsFrame DEF Found
  <2> QED BY <1>1, <2>1, <2>2 DEF Readings
<1>5. CASE BeginReading(r)
  <2>1. \/ reader'[r] = [IdleReader EXCEPT !.kind = "prompt", !.pc = "version"]
        \/ \E t \in Types :
             reader'[r] = [IdleReader EXCEPT !.kind = "start", !.pc = "default", !.type = t]
        \/ \E s \in KBs, id \in Ids \cup {NoModel} :
             reader'[r] = [IdleReader EXCEPT !.kind = "settings", !.pc = "base", !.scope = s,
                                             !.id = id]
    <3>1. \A rd : Read(r, rd) => reader'[r] = rd
      BY ReadsFrame
    <3>2. \/ Read(r, [IdleReader EXCEPT !.kind = "prompt", !.pc = "version"])
          \/ \E t \in Types :
               Read(r, [IdleReader EXCEPT !.kind = "start", !.pc = "default", !.type = t])
          \/ \E s \in KBs, id \in Ids \cup {NoModel} :
               Read(r, [IdleReader EXCEPT !.kind = "settings", !.pc = "base", !.scope = s,
                                          !.id = id])
      BY <1>5 DEF BeginReading
    <3> QED BY <3>1, <3>2
  <2> QED BY <2>1 DEF Excused, IdleReader
<1>6. CASE ReadVersion(r)
  <2>1. (Asked \in active) \in BOOLEAN
    OBVIOUS
  <2> QED BY <1>1, <1>6, <2>1, FoundExcused DEF ReadVersion, Excused
<1>7. CASE ReadAnyVersion(r)
  <2>1. PICK yes \in BOOLEAN : yes <=> active # {}
    OBVIOUS
  <2>2. reader[r].kind = "prompt" /\ Found(r, yes, "done") /\ active' = active
    BY <1>1, <1>4, <1>7, <2>1 DEF ReadAnyVersion, Excused, tables
  <2>3. ~yes => NotToBeFound(r)'
    BY <1>3, <1>4, <2>1, <2>2 DEF Explained
  <2> QED BY <2>2, <2>3, FoundExcused
<1>8. CASE ReadDefaultOfId(r)
  <2>1. (\E m \in RowsOf(reader[r].id) : m.default) \in BOOLEAN
    OBVIOUS
  <2> QED BY <1>1, <1>8, <2>1, FoundExcused DEF ReadDefaultOfId, Excused
<1>9. CASE ReadAnyOfId(r)
  <2>1. PICK yes \in BOOLEAN : yes <=> RowsOf(reader[r].id) # {}
    OBVIOUS
  <2>2. /\ reader[r].kind = "answer" /\ reader[r].id \in Ids
        /\ Found(r, yes, "done")
    BY <1>1, <1>9, <2>1 DEF ReadAnyOfId, Excused
  <2>3. RowsOf(reader[r].id) = RowsOf(reader[r].id)'
    BY <1>4, <2>2 DEF RowsOf, tables
  <2>4. ~yes => NotToBeFound(r)'
    BY <1>3, <1>4, <2>1, <2>2, <2>3 DEF Explained, RowsOf
  <2> QED BY <2>2, <2>4, FoundExcused
<1>10. CASE ReadDefault(r)
  <2>1. PICK yes \in BOOLEAN : yes <=> Defaults(reader[r].type) # {}
    OBVIOUS
  <2>2. reader[r].kind \in {"start", "rerank"}
    BY <1>1, <1>10 DEF ReadDefault, Excused
  <2>3. PICK next \in {"done", "legacy"} : Found(r, yes, next)
    BY <1>10, <2>1 DEF ReadDefault
  <2>4. ~yes => NotToBeFound(r)'
    BY <1>3, <1>4, <2>1, <2>2, <2>3 DEF Explained, Defaults, DefaultsIn, tables
  <2> QED BY <2>2, <2>3, <2>4, FoundExcused
<1>11. CASE ReadLegacy(r)
  <2>1. (Defaults(Legacy) # {}) \in BOOLEAN
    OBVIOUS
  <2>2. r \in excused
    BY <1>1, <1>11 DEF ReadLegacy, Excused
  <2> QED BY <1>11, <2>1, <2>2, FoundExcused DEF ReadLegacy
<1>12. CASE EndReading(r)
  <2>1. reader'[r] = IdleReader
    BY <1>12, ReadsFrame DEF EndReading
  <2> QED BY <2>1 DEF Excused, IdleReader
<1>13. CASE ReadBase(r)
  <2>1. \E s \in {reader[r].scope, Tenant}, id \in Ids \cup {NoModel} :
          reader'[r] = IF id \in Ids
                       THEN [IdleReader EXCEPT !.kind = "answer", !.pc = "default of id",
                                               !.scope = s, !.id = id]
                       ELSE Reranking
    BY <1>13, ReadsFrame DEF ReadBase
  <2> QED BY <2>1 DEF Excused, IdleReader, Reranking
<1>14. CASE ReadFails(r)
  <2>1. \/ reader'[r] = Reranking
        \/ reader'[r] = [reader[r] EXCEPT !.kind = "failed", !.pc = "done"]
    BY <1>14, ReadsFrame DEF ReadFails
  <2>2. CASE reader'[r] = Reranking
    BY <2>2 DEF Excused, IdleReader, Reranking
  <2>3. CASE reader'[r] = [reader[r] EXCEPT !.kind = "failed", !.pc = "done"]
    BY <1>1, <2>3 DEF Excused, Readings
  <2> QED BY <2>1, <2>2, <2>3
<1> QED
  BY <1>5, <1>6, <1>7, <1>8, <1>9, <1>10, <1>11, <1>12, <1>13, <1>14 DEF Reads

LEMMA ReadInvInit == Init => ReadInv
<1> SUFFICES ASSUME Init PROVE ReadInv
  OBVIOUS
<1>1. PromptKept
  BY DEF Init, PromptKept
<1>2. ReferenceKept
  BY IdleTyped, ModelSettingsAssumption DEF Init, ReferenceKept, RowsOf
<1>3. ReadersExcused
  BY DEF Init, ReadersExcused, IdleReader
<1> QED BY <1>1, <1>2, <1>3, SwitchInvInit DEF ReadInv

LEMMA ReadInvStep == ReadInv /\ [Next]_vars => ReadInv'
<1> SUFFICES ASSUME ReadInv, [Next]_vars PROVE ReadInv'
  OBVIOUS
<1>1. SwitchInv' /\ TypeOK
  BY SwitchInvStep DEF ReadInv, SwitchInv
<1>2. ASSUME NEW p \in Procs, Serve(p), Observe
      PROVE  PromptKept' /\ ReferenceKept' /\ ReadersExcused'
  <2>1. PromptKept' /\ ReferenceKept'
    BY <1>1, <1>2, PromptStep, ReferenceStep DEF ReadInv
  <2>2. reader' = reader /\ \A r \in Readers : reader[r].pc # "idle" /\ r \in excused
                                            => r \in excused'
    BY <1>1, <1>2, ServeFrame DEF Observe
  <2> QED BY <2>1, <2>2 DEF ReadInv, ReadersExcused
<1>3. ASSUME NEW r \in Readers, Reads(r), Observe
      PROVE  PromptKept' /\ ReferenceKept' /\ ReadersExcused'
  <2>1. Excused(r)'
    BY <1>1, <1>3, ReaderStep
  <2>2. \A q \in Readers \ {r} : reader'[q] = reader[q]
    BY <1>3, ReadsFrame
  <2>3. \A q \in Readers \ {r} : reader[q].pc # "idle" /\ q \in excused => q \in excused'
    BY <1>3, <2>2 DEF Observe
  <2>4. ReadersExcused'
    BY <2>1, <2>2, <2>3 DEF ReadInv, ReadersExcused, Excused
  <2> QED BY <1>3, <2>4, ReadsFrame
<1>4. CASE UNCHANGED vars
  BY <1>1, <1>4 DEF vars, tables, history, ReadInv, PromptKept, Activating, ReferenceKept,
                    RowsOf, ReadersExcused
<1> QED BY <1>1, <1>2, <1>3, <1>4 DEF Next, ReadInv

\* An answer has its prompt, and a start or a reranking the default of its type, unless a
\* switch was halfway while it read or something had taken what it looks for (resolve_prompt
\* and the registry's resolution by type).
THEOREM ReadersFindDefaults == Spec => []DefaultsServed
<1>1. ReadInv => DefaultsServed
  BY DEF ReadInv, ReadersExcused, DefaultsServed
<1> QED BY <1>1, ReadInvInit, ReadInvStep, PTL DEF Spec

\* An answer finds the model its settings name, unless they changed since it read them or
\* named a model that was not there or just going (resolve_model by id).
THEOREM AnswersFindTheirModel == Spec => []ReferenceServed
<1>1. ReadInv => ReferenceServed
  BY DEF ReadInv, ReadersExcused, ReferenceServed
<1> QED BY <1>1, ReadInvInit, ReadInvStep, PTL DEF Spec
=============================================================================
