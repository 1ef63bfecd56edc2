---------------------------- MODULE ProviderGraph ----------------------------
(***************************************************************************)
(* What the platform's operators change in the control plane: credentials, *)
(* the provider connections and integrations that use them, the model      *)
(* deployments on the connections, and the system configuration whose      *)
(* components refer to the deployments.  Every enabled row needs what it   *)
(* refers to, and every call resolves its runtime through these references.*)
(*                                                                         *)
(* A row is [on, ref, features, generation]: enabled (a credential:        *)
(* active), the row it refers to, the capabilities of a deployment.  A     *)
(* command is one transaction, READ COMMITTED, that locks rows as it reads *)
(* them and whose writes are seen when it commits.  Rows exist: creating   *)
(* one makes it disabled and unreferenced.  Keys of repeated commands are  *)
(* the subject of Configuration.                                           *)
(***************************************************************************)
EXTENDS Integers, Sequences

CONSTANTS
  Credentials, Connections, Integrations, Deployments,
  Azure,         \* the connections whose provider is azure_openai
  ElevenLabs,    \* and those whose provider is elevenlabs
  Features,      \* capabilities of deployments
  Requests,      \* commands that are sent, each once
  GraphCommands, \* what a command may ask for
  Starts,        \* [row, config] the requests may find
  System,        \* the advisory lock of the system configuration
  None,
  MaxGraphFaults \* bound: transactions lost

Users == Connections \union Integrations
Rows == Credentials \union Users \union Deployments
Components == {"STTDefaults", "LLMDefaults", "TTSDefaults", "RealtimeDefaults", "Policies"}
RowOps == {"rotate", "revoke", "enable", "disable", "update"}
SystemOps == {"apply", "set"}

\* refs: the deployments a value names, that of input transcription second.
\* needs: the features its settings ask of the first; of Policies, those of the
\* deployment of STTDefaults.  vad: Policies leave the end of a turn to the VAD of
\* the STT's provider.  Generation 0: no such component.
Values == [refs : Seq(Deployments), needs : SUBSET Features, vad : BOOLEAN,
           generation : Nat]
RowStates == [on : BOOLEAN, ref : Rows \union {None}, features : SUBSET Features,
              generation : Nat]
Configs == [Components -> Values]

\* What the foreign key of a row of each table may hold.
RefFits(x, to) ==
  /\ x \in Deployments => to \in Connections
  /\ x \in Connections => to \in Credentials
  /\ x \in Integrations => to \in Credentials \union {None}
  /\ x \in Credentials => to = None

\* The references a component of each kind has; turns are ended in one way, so
\* Policies that leave it to the provider's VAD ask for no native endpointing.
ValueFits(k, value) ==
  /\ Len(value.refs) = IF k = "Policies" THEN 0 ELSE IF k = "RealtimeDefaults" THEN 2 ELSE 1
  /\ value.vad => k = "Policies" /\ value.needs = {}

ASSUME FeaturesAssumption == {"cascade", "transcription"} \subseteq Features
ASSUME ProvidersAssumption ==
  /\ Azure \subseteq Connections /\ ElevenLabs \subseteq Connections
  /\ Azure \intersect ElevenLabs = {}
ASSUME NoneAssumption ==
  None \notin Rows \union Requests \union GraphCommands \union {System}
ASSUME TablesAssumption ==
  /\ Credentials \intersect (Users \union Deployments) = {}
  /\ Connections \intersect (Integrations \union Deployments) = {}
  /\ Integrations \intersect Deployments = {}
  /\ System \notin Rows
ASSUME CommandsAssumption ==
  \A c \in GraphCommands :
    \/ /\ c.op \in RowOps /\ c.target \in Rows
       /\ c.op \in {"rotate", "revoke"} <=> c.target \in Credentials
       /\ c.op = "update" => RefFits(c.target, c.to) /\ c.features \subseteq Features
    \/ /\ c.op \in SystemOps /\ c.target = System
       /\ DOMAIN c.desired \subseteq Components
       /\ c.op = "apply" => DOMAIN c.desired = Components
       /\ c.op = "set" => \E k \in Components : DOMAIN c.desired = {k}
       /\ \A k \in DOMAIN c.desired : c.desired[k] \in Values /\ ValueFits(k, c.desired[k])
ASSUME GraphFaultsAssumption == MaxGraphFaults \in Nat

VARIABLES
  row,       \* committed rows
  config,    \* committed system configuration
  graphLock, \* the request that holds a row, or the advisory lock
  tx,        \* of each request [at, command, saw, todo, bad]: what its client had
             \* read, the rows it has still to look at, an issue found
  graphFaults

graphVars == << row, config, graphLock, tx, graphFaults >>

Steps == {"idle", "open", "uses", "walk", "done", "refused", "lost", "aborted"}
Ended == {"done", "refused", "lost", "aborted"}
Todo == [row : Rows \union {System}, needs : SUBSET Features]

GraphTypeOK ==
  /\ row \in [Rows -> RowStates] /\ config \in Configs
  /\ graphLock \in [Rows \union {System} -> Requests \union {None}]
  /\ tx \in [Requests -> [at : Steps, command : GraphCommands \union {None},
                          saw : {None} \union RowStates \union Configs,
                          todo : Seq(Todo), bad : BOOLEAN]]
  /\ graphFaults \in 0 .. MaxGraphFaults

Idle == [at |-> "idle", command |-> None, saw |-> None, todo |-> << >>, bad |-> FALSE]

GraphInit ==
  /\ \E s \in Starts : row = s.row /\ config = s.config
  /\ graphLock = [x \in Rows \union {System} |-> None]
  /\ tx = [q \in Requests |-> Idle]
  /\ graphFaults = 0

-----------------------------------------------------------------------------
(***************************************************************************)
(* What refers to what.                                                    *)
(***************************************************************************)
Present(cfg, k) == cfg[k].generation # 0

\* What the component asks of the deployment it names first.
KindNeeds(cfg, k) ==
  IF k = "STTDefaults" THEN {"cascade"} ELSE cfg[k].needs

\* The requests find rows that are enabled with what they need, and a configuration
\* whose components have what they ask for.
ASSUME StartsAssumption ==
  \A s \in Starts :
    /\ s.row \in [Rows -> RowStates] /\ s.config \in Configs
    /\ \A x \in Rows : /\ RefFits(x, s.row[x].ref)
                       /\ s.row[x].on /\ s.row[x].ref # None => s.row[s.row[x].ref].on
    /\ \A k \in Components :
         Present(s.config, k) =>
           /\ ValueFits(k, s.config[k])
           /\ k # "Policies" =>
                LET d == s.config[k].refs[1] IN
                s.row[d].on /\ KindNeeds(s.config, k) \subseteq s.row[d].features

\* system_configuration_references: the components whose deployment_ref it is.
References(d) ==
  {k \in Components : Present(config, k) /\ config[k].refs # << >> /\ config[k].refs[1] = d}

\* What stands against a command although its row is in the right state.
RevokeRefused(c) == \E x \in Users : row[x].on /\ row[x].ref = c.target

DisableConnectionRefused(c) ==
  \E d \in Deployments : row[d].on /\ row[d].ref = c.target

DisableDeploymentRefused(c) == References(c.target) # {}

\* Mutant of UpdateDeploymentRefused: the new features are not compared.
UpdateNeverRefused(c) == FALSE

UpdateDeploymentRefused(c) ==
  \E k \in References(c.target) : ~(KindNeeds(config, k) \subseteq c.features)

InUse(c) ==
  CASE c.op = "revoke" -> RevokeRefused(c)
    [] c.op = "disable" /\ c.target \in Connections -> DisableConnectionRefused(c)
    [] c.op = "disable" /\ c.target \in Deployments -> DisableDeploymentRefused(c)
    [] c.op = "update" /\ c.target \in Deployments -> UpdateDeploymentRefused(c)
    [] OTHER -> FALSE

Item(r, needs) == [row |-> r, needs |-> needs]
ItemOf(r) == IF r = None THEN << >> ELSE << Item(r, {}) >>

\* The configuration a command asks for.
Desired(c) ==
  [k \in Components |-> IF k \in DOMAIN c.desired
                        THEN [c.desired[k] EXCEPT !.generation = config[k].generation + 1]
                        ELSE config[k]]

\* The deployments validation looks at for one component, in its order.
Slots(cfg, k) ==
  LET first == cfg[k].refs[1] IN
  CASE k = "STTDefaults" -> << Item(first, {"cascade"} \union cfg["Policies"].needs) >>
    [] k = "RealtimeDefaults" -> << Item(first, cfg[k].needs),
                                    Item(cfg[k].refs[2], {"transcription"}) >>
    [] k = "Policies" -> IF Present(cfg, "STTDefaults") /\ cfg[k].needs # {}
                         THEN << Item(cfg["STTDefaults"].refs[1], cfg[k].needs) >>
                         ELSE << >>
    [] OTHER -> << Item(first, cfg[k].needs) >>

AllSlots(cfg) == Slots(cfg, "STTDefaults") \o Slots(cfg, "LLMDefaults")
                   \o Slots(cfg, "TTSDefaults") \o Slots(cfg, "RealtimeDefaults")

\* What is locked and looked at after the row of the command itself.
SetChain(c) == Slots(Desired(c), CHOOSE k \in DOMAIN c.desired : TRUE)

\* Mutant of EnableChain: the credential of a deployment is looked at first.
EnableChainUp(c) ==
  IF c.target \in Deployments
  THEN ItemOf(row[row[c.target].ref].ref) \o ItemOf(row[c.target].ref)
  ELSE ItemOf(row[c.target].ref)

EnableChain(c) == ItemOf(row[c.target].ref)

UpdateChain(c) == IF row[c.target].on THEN ItemOf(c.to) ELSE << >>

Chain(c) ==
  CASE c.op = "enable" -> EnableChain(c)
    [] c.op = "update" -> UpdateChain(c)
    [] c.op = "apply" -> AllSlots(Desired(c))
    [] c.op = "set" -> SetChain(c)
    [] OTHER -> << >>

\* Mutant of IsUsable: capabilities are not looked at.
IsUsableOnceEnabled(item) == row[item.row].on

IsUsable(item) == row[item.row].on /\ item.needs \subseteq row[item.row].features

\* Azure's transcription is on the connection of the realtime model.
OneConnection(cfg) ==
  LET model == row[cfg["RealtimeDefaults"].refs[1]].ref
      transcription == row[cfg["RealtimeDefaults"].refs[2]].ref
  IN  model \in Azure => transcription = model

Refuses(c) == c.op \in SystemOps /\ "RealtimeDefaults" \in DOMAIN c.desired
                /\ ~OneConnection(Desired(c))

-----------------------------------------------------------------------------
(***************************************************************************)
(* Tokens: the generation of a row or component, the content of a complete *)
(* configuration.                                                          *)
(***************************************************************************)
Content(cfg) ==
  IF \A k \in Components : Present(cfg, k)
  THEN [k \in Components |-> << cfg[k].refs, cfg[k].needs, cfg[k].vad >>]
  ELSE << >>

TokenFits(c, saw) ==
  CASE c.op = "apply" -> Content(config) = Content(saw)
    [] c.op = "set" -> \A k \in DOMAIN c.desired : config[k].generation = saw[k].generation
    [] OTHER -> row[c.target].generation = saw.generation

Applicable(c) ==
  CASE c.op = "enable" -> ~row[c.target].on
    [] c.op \in {"rotate", "revoke", "disable"} -> row[c.target].on
    [] OTHER -> TRUE

-----------------------------------------------------------------------------
(***************************************************************************)
(* A transaction.                                                          *)
(***************************************************************************)
Held(q) == {x \in DOMAIN graphLock : graphLock[x] = q}
Free(q, x) == graphLock[x] \in {None, q}

Released(q) == [x \in DOMAIN graphLock |-> IF x \in Held(q) THEN None ELSE graphLock[x]]

\* Mutant of Locked: credentials are read without FOR UPDATE.
LockedButCredentials(q, x) ==
  IF x \in Credentials THEN graphLock ELSE [graphLock EXCEPT ![x] = q]

Locked(q, x) == [graphLock EXCEPT ![x] = q]

At(q, step, todo, bad) ==
  tx' = [tx EXCEPT ![q].at = step, ![q].todo = todo, ![q].bad = bad]

\* The transaction is over and its locks with it.
End(q, how) == At(q, how, << >>, FALSE) /\ graphLock' = Released(q)

\* A client that has read the row or the configuration asks for a change of it.
SendCommand(q, c) ==
  /\ tx[q].at = "idle"
  /\ tx' = [tx EXCEPT ![q] = [at |-> "open", command |-> c, bad |-> FALSE,
                              saw |-> IF c.target = System THEN config ELSE row[c.target],
                              todo |-> << Item(c.target, {}) >>]]
  /\ UNCHANGED << row, config, graphLock, graphFaults >>

\* It locks its row, and compares the token and the state.
Open(q) ==
  LET c == tx[q].command IN
  /\ tx[q].at = "open" /\ Free(q, c.target)
  /\ IF TokenFits(c, tx[q].saw) /\ (c.target = System \/ Applicable(c))
     THEN At(q, "uses", << >>, FALSE) /\ graphLock' = Locked(q, c.target)
     ELSE End(q, "refused")
  /\ UNCHANGED << row, config, graphFaults >>

\* It reads, without locking them, the rows that use its own.
LookAtUses(q) ==
  LET c == tx[q].command IN
  /\ tx[q].at = "uses"
  /\ IF InUse(c)
     THEN End(q, "refused")
     ELSE At(q, "walk", Chain(c), FALSE) /\ UNCHANGED graphLock
  /\ UNCHANGED << row, config, graphFaults >>

\* It locks the next row it needs and looks at it; that row's own reference is
\* next.  Validation of the system configuration collects issues, the others
\* stop at the first.
Walk(q) ==
  /\ tx[q].at = "walk" /\ tx[q].todo # << >>
  /\ LET item == Head(tx[q].todo) IN
     /\ Free(q, item.row)
     /\ IF IsUsable(item) \/ tx[q].command.target = System
        THEN /\ At(q, "walk", ItemOf(row[item.row].ref) \o Tail(tx[q].todo),
                   tx[q].bad \/ ~IsUsable(item))
             /\ graphLock' = Locked(q, item.row)
        ELSE End(q, "refused")
  /\ UNCHANGED << row, config, graphFaults >>

Changed(r) == [r EXCEPT !.generation = @ + 1]
Revoked(r) == [Changed(r) EXCEPT !.on = FALSE]
Switched(r, on) == [Changed(r) EXCEPT !.on = on]
Updated(r, c) == [Changed(r) EXCEPT !.ref = c.to, !.features = c.features]

\* A rotation makes another version of the secret the active one.
RowAfter(c, r) ==
  CASE c.op = "rotate" -> Changed(r)
    [] c.op = "revoke" -> Revoked(r)
    [] c.op \in {"enable", "disable"} -> Switched(r, c.op = "enable")
    [] c.op = "update" -> Updated(r, c)

\* set writes its component, apply those that differ.
ConfigAfter(c) ==
  [k \in Components |->
     IF c.op = "apply" /\ Present(config, k) /\ config[k].refs = c.desired[k].refs
          /\ config[k].needs = c.desired[k].needs /\ config[k].vad = c.desired[k].vad
     THEN config[k] ELSE Desired(c)[k]]

\* A reference that is written without having been locked waits for a
\* transaction that holds the row it names: the foreign key is checked.
WrittenRef(c) ==
  IF c.op = "update" /\ row[c.target].ref # c.to THEN {c.to} \ {None} ELSE {}

Commit(q) ==
  LET c == tx[q].command IN
  /\ tx[q].at = "walk" /\ tx[q].todo = << >>
  /\ ~tx[q].bad /\ ~Refuses(c)
  /\ IF c.target = System
     THEN config' = ConfigAfter(c) /\ UNCHANGED row
     ELSE /\ \A x \in WrittenRef(c) : Free(q, x)
          /\ row' = [row EXCEPT ![c.target] = RowAfter(c, @)] /\ UNCHANGED config
  /\ End(q, "done")
  /\ UNCHANGED graphFaults

RefuseCommand(q) ==
  /\ tx[q].at = "walk" /\ tx[q].todo = << >>
  /\ tx[q].bad \/ Refuses(tx[q].command)
  /\ End(q, "refused")
  /\ UNCHANGED << row, config, graphFaults >>

-----------------------------------------------------------------------------
(***************************************************************************)
(* PostgreSQL aborts a transaction of a cycle of waits; the process or its *)
(* connection may stop.                                                    *)
(***************************************************************************)
Wants(q) ==
  CASE tx[q].at \in {"open", "walk"} /\ tx[q].todo # << >> -> {Head(tx[q].todo).row}
    [] tx[q].at = "walk" /\ tx[q].todo = << >> -> WrittenRef(tx[q].command)
    [] OTHER -> {}

WaitsFor(q) == {graphLock[x] : x \in Wants(q)} \ {None, q}

\* Everyone in it waits for another one of it.
Cycle(S) ==
  /\ S # {}
  /\ \A q \in S : WaitsFor(q) \subseteq S /\ WaitsFor(q) # {}
  /\ \A q \in S : \E x \in S : q \in WaitsFor(x)

Abort(q) ==
  /\ \E S \in SUBSET Requests : q \in S /\ Cycle(S)
  /\ End(q, "aborted")
  /\ UNCHANGED << row, config, graphFaults >>

Lose(q) ==
  /\ tx[q].at \notin Ended \union {"idle"}
  /\ graphFaults < MaxGraphFaults /\ graphFaults' = graphFaults + 1
  /\ End(q, "lost")
  /\ UNCHANGED << row, config >>

GraphStep(q) ==
  Open(q) \/ LookAtUses(q) \/ Walk(q) \/ Commit(q) \/ RefuseCommand(q) \/ Abort(q)

GraphNext ==
  \E q \in Requests : GraphStep(q) \/ Lose(q) \/ \E c \in GraphCommands : SendCommand(q, c)

GraphSpec == GraphInit /\ [][GraphNext]_graphVars

-----------------------------------------------------------------------------
(***************************************************************************)
(* The runtime an execution resolves, in a snapshot of its own.            *)
(***************************************************************************)
\* A deployment, its connection and its credential, and what is asked of it.
DeploymentResolves(d, needs) ==
  /\ row[d].on /\ needs \subseteq row[d].features
  /\ row[row[d].ref].on
  /\ row[row[row[d].ref].ref].on

ResolvesFirst(k) == DeploymentResolves(config[k].refs[1], KindNeeds(config, k))

StandaloneSTT == ResolvesFirst("STTDefaults")

RealtimeModel == ResolvesFirst("RealtimeDefaults")

RealtimeTranscription ==
  /\ DeploymentResolves(config["RealtimeDefaults"].refs[2], {"transcription"})
  /\ OneConnection(config)

Endpointing == config["Policies"].needs \subseteq row[config["STTDefaults"].refs[1]].features

\* Only ElevenLabs' VAD ends turns.
ProviderVAD ==
  config["Policies"].vad => row[config["STTDefaults"].refs[1]].ref \in ElevenLabs

Cascade ==
  /\ ResolvesFirst("LLMDefaults") /\ StandaloneSTT /\ ResolvesFirst("TTSDefaults")
  /\ ProviderVAD /\ Endpointing

Realtime == RealtimeModel /\ RealtimeTranscription /\ StandaloneSTT

HalfCascade == Realtime /\ ResolvesFirst("TTSDefaults")

-----------------------------------------------------------------------------
(***************************************************************************)
(* Properties.                                                             *)
(***************************************************************************)
\* What an enabled row refers to is enabled, or active: nobody disables or
\* revokes it while another one enables or moves what depends on it.
\* docs/control-plane/INVARIANTS.md, section 12.
EnabledIsUsable ==
  \A r \in Rows : row[r].on /\ row[r].ref # None => row[row[r].ref].on

\* The deployment_ref of a component of the system configuration resolves in
\* every committed state, so no call is refused for what two operators did at
\* once to it.  Nothing is said of input_transcription, nor of what Policies ask
\* of the deployment of STTDefaults.
ReferencesResolve ==
  \A k \in Components \ {"Policies"} : Present(config, k) => ResolvesFirst(k)

\* What apply validates still holds when it commits, whatever was changed while
\* it validated: every architecture resolves then, but for a cascade that leaves
\* the end of turns to the VAD of a provider other than ElevenLabs, which apply
\* does not look at and the resolver refuses.
AppliedResolves ==
  [][\A q \in Requests :
       tx[q].at = "walk" /\ tx'[q].at = "done" /\ tx[q].command.op = "apply"
         => (ProviderVAD' => Cascade') /\ Realtime' /\ HalfCascade']_graphVars

\* Commands on rows lock from the deployment down to the credential, so they
\* never wait for each other in a circle: whenever PostgreSQL has to choose a
\* victim, a validation that goes down for more than one deployment, of the whole
\* configuration or of RealtimeDefaults, is among them.
OnlyValidationDeadlocks ==
  \A S \in SUBSET Requests :
    Cycle(S) => \E q \in S : /\ tx[q].command.target = System
                            /\ "RealtimeDefaults" \in DOMAIN tx[q].command.desired

\* docs/control-plane/SCHEMAS.md: RealtimeDefaults.input_transcription refers to
\* a deployment that supports realtime input transcription; an execution can use
\* it.
TranscriptionResolves ==
  Present(config, "RealtimeDefaults")
    => DeploymentResolves(config["RealtimeDefaults"].refs[2], {"transcription"})

\* docs/control-plane/SCHEMAS.md: turns are committed by the STT only when the
\* deployment that is selected supports native endpointing.
EndpointingIsAdvertised ==
  Present(config, "STTDefaults") /\ Present(config, "Policies") => Endpointing

\* docs/control-plane/CODEX_REPORTS/mapping_analysis.md: with provider_vad the
\* compatibility of the provider is checked; an execution can use it.
ProviderVADIsCompatible ==
  Present(config, "STTDefaults") /\ Present(config, "Policies") => ProviderVAD

\* docs/control-plane/SCHEMAS.md: Azure's input transcription is on the
\* connection of the realtime model.
TranscriptionOnModelConnection ==
  Present(config, "RealtimeDefaults") => OneConnection(config)

=============================================================================
