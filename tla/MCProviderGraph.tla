--------------------------- MODULE MCProviderGraph ---------------------------
(***************************************************************************)
(* Two connections and credentials, an integration, two STT deployments    *)
(* and one of each other kind, and two operators at once.                  *)
(***************************************************************************)
EXTENDS ProviderGraph, TLC

CONSTANTS c1, c2, p1, p2, i1, stt1, stt2, llm, tts, realtime

MCRow(on, ref, features) ==
  [on |-> on, ref |-> ref, features |-> features, generation |-> 1]

MCValue(refs, needs, generation) ==
  [refs |-> refs, needs |-> needs, vad |-> FALSE, generation |-> generation]

\* Policies that leave the end of turns to the provider of STTDefaults.
MCProviderVAD == [MCValue(<< >>, {}, 1) EXCEPT !.vad = TRUE]

MCWithProviderVAD(cfg) == [cfg EXCEPT !["Policies"] = MCProviderVAD]

\* The graph: what is enabled besides what the configuration needs.
MCGraph(on, second) ==
  (c1 :> MCRow(TRUE, None, {})) @@ (c2 :> MCRow(TRUE, None, {}))
  @@ (p1 :> MCRow(TRUE, c1, {})) @@ (p2 :> MCRow(p2 \in on, c2, {}))
  @@ (i1 :> MCRow(i1 \in on, c2, {}))
  @@ (stt1 :> MCRow(TRUE, p1, {"cascade", "endpointing", "transcription"}))
  @@ (stt2 :> MCRow(stt2 \in on, second, {"cascade", "transcription"}))
  @@ (llm :> MCRow(TRUE, p1, {"temperature"}))
  @@ (tts :> MCRow(TRUE, p1, {}))
  @@ (realtime :> MCRow(TRUE, p1, {"server_vad"}))

MCConfig(stt, transcription, commit, generation) ==
  [k \in Components |->
     CASE k = "STTDefaults" -> MCValue(<< stt >>, {}, generation)
       [] k = "LLMDefaults" -> MCValue(<< llm >>, {"temperature"}, generation)
       [] k = "TTSDefaults" -> MCValue(<< tts >>, {}, generation)
       [] k = "RealtimeDefaults" -> MCValue(<< realtime, transcription >>, {"server_vad"}, generation)
       [] k = "Policies" -> MCValue(<< >>, commit, generation)]

MCNoConfig == [k \in Components |-> MCValue(<< >>, {}, 0)]

\* Everything refers to stt1 and the second connection is unused; or stt2 is
\* enabled on the second connection, and nothing is configured or STT commits
\* turns; or the transcription is on stt2.
MCStarts ==
  { [row |-> MCGraph({}, p2), config |-> MCConfig(stt1, stt1, {}, 1)],
    [row |-> MCGraph({p2, stt2, i1}, p2), config |-> MCNoConfig],
    [row |-> MCGraph({p2, stt2}, p2), config |-> MCConfig(stt1, stt1, {"endpointing"}, 1)],
    [row |-> MCGraph({stt2}, p1), config |-> MCConfig(stt1, stt2, {}, 1)] }

MCOn(op, target) ==
  [op |-> op, target |-> target, to |-> None, features |-> {}, desired |-> << >>]

MCUpdate(target, to, features) ==
  [MCOn("update", target) EXCEPT !.to = to, !.features = features]

MCSystem(op, desired) == [MCOn(op, System) EXCEPT !.desired = desired]

MCSet(k, value) == MCSystem("set", k :> value)

MCCommands ==
  { MCOn("rotate", c1), MCOn("revoke", c1), MCOn("revoke", c2) }
  \union { MCOn(op, x) : op \in {"enable", "disable"}, x \in {p2, i1, stt2} }
  \union { MCOn("disable", p1), MCOn("disable", stt1) }
  \union { MCUpdate(p1, c2, {}), MCUpdate(p2, c1, {}), MCUpdate(i1, c1, {}), MCUpdate(i1, None, {}),
           MCUpdate(stt1, p1, {"cascade", "transcription"}),
           MCUpdate(stt1, p2, {"cascade", "endpointing"}),
           MCUpdate(stt2, p1, {"transcription"}), MCUpdate(realtime, p2, {"server_vad"}),
           MCUpdate(llm, p2, {}), MCUpdate(tts, p2, {}) }
  \union { MCSystem("apply", MCConfig(stt1, stt1, {"endpointing"}, 1)),
           MCSystem("apply", MCConfig(stt2, stt2, {}, 1)) }
  \union { MCSystem("apply", MCWithProviderVAD(MCConfig(stt, stt1, {}, 1))) : stt \in {stt1, stt2} }
  \union { MCSet("STTDefaults", MCValue(<< stt2 >>, {}, 1)),
           MCSet("LLMDefaults", MCValue(<< llm >>, {}, 1)),
           MCSet("RealtimeDefaults", MCValue(<< realtime, stt2 >>, {"server_vad"}, 1)),
           MCSet("Policies", MCValue(<< >>, {"endpointing"}, 1)),
           MCSet("Policies", MCProviderVAD) }

=============================================================================
