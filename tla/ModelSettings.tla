---------------------------- MODULE ModelSettings ----------------------------
(***************************************************************************)
(* The registry of models with a default per type, the versions of a       *)
(* prompt, and the retrieval settings that name a model, as the settings   *)
(* API changes them, each change in several autocommitted statements, and  *)
(* as answers and the embedding service read them meanwhile.               *)
(***************************************************************************)
EXTENDS Naturals, FiniteSets

CONSTANTS
    Procs, Readers,  \* threads of the API; answers and starts of services
    Ids, NoModel,    \* model ids, and the empty id
    Types,           \* types of models
    Reranker, Legacy,\* the type of rerankers, and its former name
    Versions,        \* versions of the prompt; the answers ask for one of them first,
    Asked,           \*   this one
    KBs, Tenant,     \* scopes of retrieval settings
    FirstModels,     \* rows of model_registry at first
    FirstSettings,   \* the model each scope names at first, or Absent
    Absent,          \* no row
    MaxRequests      \* bound: requests to the API

Scopes == KBs \cup {Tenant}
ModelRows == [id : Ids, type : Types, default : BOOLEAN]

DefaultsIn(rows, t) == {m \in rows : m.type = t /\ m.default}

ASSUME ModelSettingsAssumption ==
    /\ NoModel \notin Ids /\ Absent \notin Ids \cup {NoModel} /\ Tenant \notin KBs
    /\ Reranker \in Types /\ Asked \in Versions /\ MaxRequests \in Nat
    /\ FirstModels \subseteq ModelRows
    /\ \A m, n \in FirstModels :
          m.type = n.type /\ (m.id = n.id \/ (m.default /\ n.default)) => m = n
    /\ FirstSettings \in [Scopes -> Ids \cup {NoModel, Absent}]
    /\ \A s \in Scopes :
          FirstSettings[s] \in Ids => \E m \in FirstModels : m.id = FirstSettings[s]

VARIABLES
    models,        \* rows of model_registry; UNIQUE (model_id, model_type)
    active,        \* active versions of the prompt
    settings,      \* the rerank_model_id of each row of retrieval_configs
    req,           \* the request each thread serves
    reader,        \* what each reader has read
    requests,      \* number of requests so far
    had,           \* history: types that had a default,
    lost,          \*   types, or "prompt", of which a failed switch or a deletion took it,
    crossed,       \*   types whose switches met, or met a model id of another type,
    loose,         \*   scopes whose model was not there, or being deleted, when it was set,
    excused        \*   readers that read while what they look for was being switched

tables == <<models, active, settings>>
history == <<had, lost, crossed, loose>>
vars == <<tables, req, reader, requests, history, excused>>

Idle == [kind |-> "none", pc |-> "idle", id |-> NoModel, type |-> Reranker, on |-> FALSE,
         version |-> Asked, scope |-> Tenant]

IdleReader == [pc |-> "idle", kind |-> "none", scope |-> Tenant, id |-> NoModel,
               type |-> Reranker, found |-> TRUE]

Init ==
    /\ models = FirstModels /\ active = {Asked} /\ settings = FirstSettings
    /\ req = [p \in Procs |-> Idle]
    /\ reader = [r \in Readers |-> IdleReader]
    /\ requests = 0
    /\ had = {t \in Types : DefaultsIn(FirstModels, t) # {}}
    /\ lost = {} /\ crossed = {} /\ loose = {} /\ excused = {}

Defaults(t) == DefaultsIn(models, t)
RowsOf(id) == {m \in models : m.id = id}

\* A switch of the type's default, or of the prompt, is between its two statements.
Halfway(p) == req[p].pc = "set" \/ (req[p].pc = "insert" /\ req[p].on)
Switching(t) == \E p \in Procs : Halfway(p) /\ req[p].type = t
Activating == \E p \in Procs : req[p].pc = "activate"

-----------------------------------------------------------------------------
(* Requests *)

Begin(p, request) ==
    /\ req[p].pc = "idle" /\ requests < MaxRequests
    /\ requests' = requests + 1
    /\ req' = [req EXCEPT ![p] = request]
    /\ UNCHANGED <<tables, reader, lost, crossed, loose>>

Goto(p, pc) == req' = [req EXCEPT ![p].pc = pc]
Answer(p) == req' = [req EXCEPT ![p] = Idle]

\* Of type and id, as default or not.
BeginCreate(p) ==
    \E id \in Ids, t \in Types, on \in BOOLEAN :
        Begin(p, [Idle EXCEPT !.kind = "create", !.pc = "check", !.id = id, !.type = t, !.on = on])

\* With is_default; the other fields make no difference here.
BeginUpdate(p) ==
    \E id \in Ids, on \in BOOLEAN :
        Begin(p, [Idle EXCEPT !.kind = "update", !.pc = "fetch", !.id = id, !.on = on])

BeginSetDefault(p) ==
    \E id \in Ids :
        Begin(p, [Idle EXCEPT !.kind = "default", !.pc = "fetch", !.id = id, !.on = TRUE])

BeginDelete(p) ==
    \E id \in Ids : Begin(p, [Idle EXCEPT !.kind = "delete", !.pc = "fetch", !.id = id])

BeginActivate(p) ==
    \E v \in Versions :
        Begin(p, [Idle EXCEPT !.kind = "activate", !.pc = "deactivate", !.version = v])

\* The model of the settings is taken as it is given.
BeginConfigure(p) ==
    \E kb \in KBs, id \in Ids \cup {NoModel} :
        Begin(p, [Idle EXCEPT !.kind = "configure", !.pc = "select", !.scope = kb, !.id = id])

\* The process stops, or the database refuses a statement.
Stop(p) ==
    /\ req[p].pc # "idle"
    /\ Answer(p)
    /\ lost' = lost \cup (IF Halfway(p) THEN {req[p].type} ELSE {})
                    \cup (IF req[p].pc = "activate" THEN {"prompt"} ELSE {})
    /\ UNCHANGED <<tables, reader, requests, crossed, loose>>

-----------------------------------------------------------------------------
(* The default of a type *)

CheckNew(p) ==
    /\ req[p].pc = "check"
    /\ IF \E m \in RowsOf(req[p].id) : m.type = req[p].type THEN Answer(p)
       ELSE Goto(p, IF req[p].on THEN "clear" ELSE "insert")
    /\ UNCHANGED <<tables, reader, requests, lost, crossed, loose>>

\* Any row with the id, of whatever type; a default model is not deleted.
FetchModel(p) ==
    /\ req[p].pc = "fetch"
    /\ \/ RowsOf(req[p].id) = {} /\ Answer(p)
       \/ \E m \in RowsOf(req[p].id) :
            IF req[p].kind = "delete"
            THEN IF m.default THEN Answer(p) ELSE Goto(p, "check use")
            ELSE req' = [req EXCEPT ![p].type = m.type,
                                    ![p].pc = IF req[p].on THEN "clear" ELSE "unset"]
    /\ UNCHANGED <<tables, reader, requests, lost, crossed, loose>>

\* Mutation: the default is taken from the rows with the id, not from those of the type.
ClearDefaultOfId(p) ==
    /\ req[p].pc = "clear"
    /\ models' = {[m EXCEPT !.default = @ /\ m.id # req[p].id] : m \in models}
    /\ Goto(p, IF req[p].kind = "create" THEN "insert" ELSE "set")
    /\ crossed' = crossed \cup {t \in {req[p].type} : Switching(t)}
    /\ UNCHANGED <<active, settings, reader, requests, lost, loose>>

\* The first statement: no model of the type is the default.
ClearDefault(p) ==
    /\ req[p].pc = "clear"
    /\ models' = {[m EXCEPT !.default = @ /\ m.type # req[p].type] : m \in models}
    /\ Goto(p, IF req[p].kind = "create" THEN "insert" ELSE "set")
    /\ crossed' = crossed \cup {t \in {req[p].type} : Switching(t)}
    /\ UNCHANGED <<active, settings, reader, requests, lost, loose>>

\* The second: the rows with the id become the default, each of its type, if there are any.
SetDefault(p) ==
    /\ req[p].pc = "set"
    /\ models' = {[m EXCEPT !.default = @ \/ m.id = req[p].id] : m \in models}
    /\ lost' = IF \E m \in RowsOf(req[p].id) : m.type = req[p].type THEN lost
               ELSE lost \cup {req[p].type}
    /\ crossed' = crossed \cup {m.type : m \in {m \in RowsOf(req[p].id) : m.type # req[p].type}}
    /\ Answer(p)
    /\ UNCHANGED <<active, settings, reader, requests, loose>>

\* An update with is_default false takes the default from the rows with the id.
UnsetDefault(p) ==
    /\ req[p].pc = "unset"
    /\ models' = {[m EXCEPT !.default = @ /\ m.id # req[p].id] : m \in models}
    /\ lost' = lost \cup {m.type : m \in RowsOf(req[p].id)}
    /\ Answer(p)
    /\ UNCHANGED <<active, settings, reader, requests, crossed, loose>>

\* A row that was inserted meanwhile makes the statement fail.
InsertModel(p) ==
    /\ req[p].pc = "insert"
    /\ IF \E m \in RowsOf(req[p].id) : m.type = req[p].type
       THEN lost' = lost \cup {t \in {req[p].type} : req[p].on} /\ UNCHANGED models
       ELSE /\ models' = models \cup
                  {[id |-> req[p].id, type |-> req[p].type, default |-> req[p].on]}
            /\ UNCHANGED lost
    /\ Answer(p)
    /\ UNCHANGED <<active, settings, reader, requests, crossed, loose>>

\* Mutation: whether settings name the model is not asked.
CheckUseNot(p) ==
    /\ req[p].pc = "check use"
    /\ Goto(p, "delete")
    /\ UNCHANGED <<tables, reader, requests, lost, crossed, loose>>

\* A model that settings name is not deleted.
CheckUse(p) ==
    /\ req[p].pc = "check use"
    /\ IF \E s \in Scopes : settings[s] = req[p].id THEN Answer(p) ELSE Goto(p, "delete")
    /\ UNCHANGED <<tables, reader, requests, lost, crossed, loose>>

\* All rows with the id go, also of other types and what became the default meanwhile.
DeleteModel(p) ==
    /\ req[p].pc = "delete"
    /\ models' = models \ RowsOf(req[p].id)
    /\ lost' = lost \cup {m.type : m \in {m \in RowsOf(req[p].id) : m.default}}
    /\ Answer(p)
    /\ UNCHANGED <<active, settings, reader, requests, crossed, loose>>

-----------------------------------------------------------------------------
(* The prompt and the retrieval settings *)

Deactivate(p) ==
    /\ req[p].pc = "deactivate"
    /\ active' = active \cap {req[p].version}
    /\ Goto(p, "activate")
    /\ UNCHANGED <<models, settings, reader, requests, lost, crossed, loose>>

\* Mutation: only a version that is not active yet is made so, and others are as they were.
ActivateToggling(p) ==
    /\ req[p].pc = "activate"
    /\ active' = (active \cup {req[p].version}) \ (active \cap {req[p].version})
    /\ Answer(p)
    /\ UNCHANGED <<models, settings, reader, requests, lost, crossed, loose>>

Activate(p) ==
    /\ req[p].pc = "activate"
    /\ active' = active \cup {req[p].version}
    /\ Answer(p)
    /\ UNCHANGED <<models, settings, reader, requests, lost, crossed, loose>>

SelectSettings(p) ==
    /\ req[p].pc = "select"
    /\ Goto(p, IF settings[req[p].scope] = Absent THEN "insert settings" ELSE "update settings")
    /\ UNCHANGED <<tables, reader, requests, lost, crossed, loose>>

\* The model the settings name is not there or is about to be deleted.
IsLoose(id) ==
    /\ id \in Ids
    /\ \/ RowsOf(id) = {}
       \/ \E q \in Procs : req[q].pc = "delete" /\ req[q].id = id

\* An update of a row that is there; an insertion fails when one is there by then.
WriteSettings(p) ==
    /\ req[p].pc \in {"insert settings", "update settings"}
    /\ IF req[p].pc = "update settings" \/ settings[req[p].scope] = Absent
       THEN /\ settings' = [settings EXCEPT ![req[p].scope] = req[p].id]
            /\ loose' = IF IsLoose(req[p].id) THEN loose \cup {req[p].scope}
                        ELSE loose \ {req[p].scope}
       ELSE UNCHANGED <<settings, loose>>
    /\ Answer(p)
    /\ UNCHANGED <<models, active, reader, requests, lost, crossed>>

-----------------------------------------------------------------------------
(* Readers *)

Read(r, rd) ==
    /\ reader' = [reader EXCEPT ![r] = rd]
    /\ UNCHANGED <<tables, req, requests, lost, crossed, loose>>

\* An answer whose settings name no model looks for the default reranker.
Reranking == [IdleReader EXCEPT !.kind = "rerank", !.pc = "default"]

\* An answer reads its prompt, or its settings, the tenant's first.  A service that starts
\* reads the default of a type.
BeginReading(r) ==
    /\ reader[r].pc = "idle"
    /\ \/ Read(r, [IdleReader EXCEPT !.kind = "prompt", !.pc = "version"])
       \/ \E t \in Types :
            Read(r, [IdleReader EXCEPT !.kind = "start", !.pc = "default", !.type = t])
       \/ \E kb \in KBs, id \in Ids \cup {NoModel} :
            /\ id = settings[Tenant] \/ (settings[Tenant] = Absent /\ id = NoModel)
            /\ Read(r, [IdleReader EXCEPT !.kind = "settings", !.pc = "base", !.scope = kb,
                                          !.id = id])

\* Then those of the knowledge base, which hide the tenant's, also with the empty id.
ReadBase(r) ==
    /\ reader[r].pc = "base"
    /\ \E s \in {reader[r].scope, Tenant}, id \in Ids \cup {NoModel} :
         /\ IF settings[reader[r].scope] = Absent THEN s = Tenant /\ id = reader[r].id
            ELSE s = reader[r].scope /\ id = settings[s]
         /\ Read(r, IF id \in Ids
                    THEN [IdleReader EXCEPT !.kind = "answer", !.pc = "default of id",
                                            !.scope = s, !.id = id]
                    ELSE Reranking)

Found(r, yes, next) ==
    Read(r, [reader[r] EXCEPT !.pc = IF yes THEN "done" ELSE next, !.found = yes])

\* resolve_prompt: the version asked for, if it is active, and else any that is.
ReadVersion(r) ==
    reader[r].pc = "version" /\ Found(r, Asked \in active, "any version")

ReadAnyVersion(r) ==
    reader[r].pc = "any version" /\ Found(r, active # {}, "done")

\* resolve_model: the default with the id, and else any row with it; else the LLM's settings.
ReadDefaultOfId(r) ==
    /\ reader[r].pc = "default of id"
    /\ Found(r, \E m \in RowsOf(reader[r].id) : m.default, "any of id")

ReadAnyOfId(r) ==
    reader[r].pc = "any of id" /\ Found(r, RowsOf(reader[r].id) # {}, "done")

\* The default of a type; a start looks for rerankers under their former name as well.
ReadDefault(r) ==
    /\ reader[r].pc = "default"
    /\ Found(r, Defaults(reader[r].type) # {},
             IF reader[r].kind = "start" /\ reader[r].type = Reranker THEN "legacy" ELSE "done")

ReadLegacy(r) ==
    reader[r].pc = "legacy" /\ Found(r, Defaults(Legacy) # {}, "done")

\* The database refuses a statement: settings are as in the code, and so is a default; a model
\* that cannot be read is not used, and an answer without its prompt fails.
ReadFails(r) ==
    \/ reader[r].pc \in {"base", "default of id", "any of id"} /\ Read(r, Reranking)
    \/ /\ reader[r].pc \in {"version", "any version", "default", "legacy"}
       /\ Read(r, [reader[r] EXCEPT !.kind = "failed", !.pc = "done"])

EndReading(r) ==
    reader[r].pc = "done" /\ Read(r, IdleReader)

-----------------------------------------------------------------------------

\* What a reader looks for is in the middle of a switch, was lost or was never there.
NotToBeFound(r) ==
    CASE reader[r].kind = "prompt" -> Activating \/ "prompt" \in lost
      [] reader[r].kind \in {"start", "rerank"} ->
            Switching(reader[r].type) \/ reader[r].type \in lost \/ reader[r].type \notin had
      [] reader[r].kind = "answer" ->
            settings[reader[r].scope] # reader[r].id \/ reader[r].scope \in loose
      [] OTHER -> FALSE

\* The history of a step.
Observe ==
    /\ had' = had \cup {t \in Types : Defaults(t)' # {}}
    /\ excused' = {r \in Readers : reader'[r].pc # "idle" /\ (r \in excused \/ NotToBeFound(r)')}

Serve(p) ==
    \/ BeginCreate(p) \/ BeginUpdate(p) \/ BeginSetDefault(p) \/ BeginDelete(p)
    \/ BeginActivate(p) \/ BeginConfigure(p) \/ Stop(p)
    \/ CheckNew(p) \/ FetchModel(p) \/ ClearDefault(p) \/ SetDefault(p) \/ UnsetDefault(p)
    \/ InsertModel(p) \/ CheckUse(p) \/ DeleteModel(p)
    \/ Deactivate(p) \/ Activate(p) \/ SelectSettings(p) \/ WriteSettings(p)

Reads(r) ==
    \/ BeginReading(r) \/ ReadBase(r) \/ ReadVersion(r) \/ ReadAnyVersion(r)
    \/ ReadDefaultOfId(r) \/ ReadAnyOfId(r) \/ ReadDefault(r) \/ ReadLegacy(r) \/ ReadFails(r)
    \/ EndReading(r)

Next == ((\E p \in Procs : Serve(p)) \/ (\E r \in Readers : Reads(r))) /\ Observe

Spec == Init /\ [][Next]_vars

-----------------------------------------------------------------------------
(* Properties *)

\* A type that had a default has one at every moment outside a switch, through all overlaps of
\* switches, creations and updates, unless a switch failed halfway, the default was taken by
\* an update, or its row deleted; and it has one only, unless two switches of the type
\* overlapped or an id stands for models of two types.
OneDefault ==
    \A t \in Types :
        /\ t \in had /\ t \notin lost /\ ~Switching(t) => Defaults(t) # {}
        /\ t \notin crossed => Cardinality(Defaults(t)) <= 1

\* An answer falls back to the template in the code, and a service or a reranking to the model
\* in the code, only if a switch was halfway while it read, or a failure or a deletion had
\* taken what it looks for, or the database refused to be read.
DefaultsServed ==
    \A r \in Readers :
        /\ reader[r].pc = "done" /\ reader[r].kind \in {"prompt", "start", "rerank"}
        /\ ~reader[r].found
        => r \in excused

\* A model that settings name is found by the answer that read them, whatever is created and
\* deleted meanwhile, also between its reads of the two scopes, and is not replaced by the
\* language model; except that the settings have changed since they were read, or named a
\* model that was not there or just going.
ReferenceServed ==
    \A r \in Readers :
        reader[r].pc = "done" /\ reader[r].kind = "answer" /\ ~reader[r].found => r \in excused
=============================================================================
