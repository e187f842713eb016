--------------------------------- MODULE AiCalls ---------------------------------
(******************************************************************************)
(* The calls to the model: the response cache, the JSON answers of the        *)
(* heartbeat, which are validated and asked for again, the answer to a chat   *)
(* message with its fallbacks, and the inferences of the task that follows    *)
(* it.                                                                        *)
(*                                                                            *)
(* The callers share nothing but the cache.  A prompt is the same each time,  *)
(* which is when the cache matters; what a retry is told of the last failure  *)
(* is part of it.  The time is measured in ticks, an age up to Ttl + 1.       *)
(******************************************************************************)
EXTENDS Naturals, SequencesExt

CONSTANTS
  None,
  MaxEntries,      \* cache.max_entries
  Ttl,             \* cache.ttl_seconds, in ticks
  MaxTemperatures, \* values of cache.max_temperature in tenths, 0: not enabled
  Callers          \* bounds of a run: sets of callers that are active together

ASSUME AiConstants ==
  /\ None \notin {"good", "fallback", "raised"}
  /\ MaxEntries \in Nat \ {0} /\ Ttl \in Nat
  /\ MaxTemperatures \subseteq 0..10
  /\ Callers \subseteq SUBSET {"heart", "engine", "task"}

VARIABLES
  maxTemperature, active,
  cache,       \* _cache, least recently used first: [key, value, age, born]
  call,        \* the call of each caller: [at, phase, told, images, since]
  tries,       \* answers of the present JSON call: [told, got]
  outcome,     \* of the last JSON call
  reply,       \* the last reply of the engine
  sane         \* the model gives valid JSON from now on

vars == <<maxTemperature, active, cache, call, tries, outcome, reply, sane>>

Caller == {"heart", "engine", "task"}

\* MAX_RETRIES and the first attempt.
Attempts == 3

\* In tenths; the default of generate() is 0.7, of generate_json() 0.3.
Temperature == [evaluation |-> 3, keywords |-> 2, chat |-> 7, draw |-> 7, feel |-> 7, extract |-> 2]

Idle == [at |-> "idle", phase |-> None, told |-> None, images |-> FALSE, since |-> 0]

\* What the model may say.  "odd" is JSON that is not an object, or whose validation raises;
\* "think" is nothing but a think block; "drawing" nothing but a tag.
Answers(phase) ==
  CASE phase = "evaluation" -> IF sane THEN {"good"} ELSE {"good", "bad", "unparsed", "odd"}
    [] phase \in {"chat", "vision"} -> {"text", "drawing", "think"}
    [] OTHER -> {"good", "useless"}

--------------------------------------------------------------------------------
(* The continuation of each caller.                                           *)

HeartAsks(told) == [Idle EXCEPT !.at = "ask", !.phase = "evaluation", !.told = told]

\* Mutation: a retry after an answer that does not parse is told of the failure before it.
JudgedSilently(v) ==
  /\ tries' = Append(tries, [told |-> call["heart"].told, got |-> v])
  /\ IF v \in {"bad", "unparsed"} /\ Len(tries') < Attempts
       THEN /\ call' = [call EXCEPT !["heart"] =
                 HeartAsks(IF v = "bad" THEN v ELSE call["heart"].told)]
            /\ UNCHANGED outcome
       ELSE /\ call' = [call EXCEPT !["heart"] = Idle]
            /\ outcome' = CASE v = "good" -> "good" [] v = "odd" -> "raised" [] OTHER -> "fallback"

\* Mutation: one attempt too few.
JudgedEarly(v) ==
  /\ tries' = Append(tries, [told |-> call["heart"].told, got |-> v])
  /\ IF v \in {"bad", "unparsed"} /\ Len(tries') < Attempts - 1
       THEN call' = [call EXCEPT !["heart"] = HeartAsks(v)] /\ UNCHANGED outcome
       ELSE /\ call' = [call EXCEPT !["heart"] = Idle]
            /\ outcome' = CASE v = "good" -> "good" [] v = "odd" -> "raised" [] OTHER -> "fallback"

\* validated_ai_json: an answer is parsed and validated, the next attempt is told what was
\* wrong, and after the last one the fallback is returned.
Judged(v) ==
  /\ tries' = Append(tries, [told |-> call["heart"].told, got |-> v])
  /\ IF v \in {"bad", "unparsed"} /\ Len(tries') < Attempts
       THEN call' = [call EXCEPT !["heart"] = HeartAsks(v)] /\ UNCHANGED outcome
       ELSE /\ call' = [call EXCEPT !["heart"] = Idle]
            /\ outcome' = CASE v = "good" -> "good" [] v = "odd" -> "raised" [] OTHER -> "fallback"

\* The engine answers; unless that is an error, its task goes on with the exchange.
Replied(r) ==
  /\ reply' = r
  /\ call' = [call EXCEPT !["engine"] = Idle,
                          !["task"] = IF r = "error" \/ "task" \notin active THEN @
                                        ELSE [Idle EXCEPT !.at = "ask", !.phase = "feel"]]

EngineGoesTo(phase) ==
  /\ call' = [call EXCEPT !["engine"].at = "ask", !["engine"].phase = phase]
  /\ UNCHANGED reply

\* Without the keywords the recall does without them.
AfterKeywords ==
  /\ call["engine"].phase = "keywords"
  /\ EngineGoesTo(IF call["engine"].images THEN "vision" ELSE "chat")

\* An answer with images is returned as it is; one without text is an error only without them.
AfterChat(v) ==
  /\ call["engine"].phase \in {"vision", "chat"}
  /\ CASE v = "drawing" -> EngineGoesTo("draw")
       [] v = "think" /\ call["engine"].phase = "chat" -> Replied("error")
       [] v = "think" /\ call["engine"].phase = "vision" -> Replied("empty")
       [] OTHER -> Replied("text")

\* The tag is removed, whether the drawing succeeds or not.
AfterDraw(v) ==
  /\ call["engine"].phase = "draw"
  /\ \E drawn \in BOOLEAN : Replied(IF drawn /\ v = "good" THEN "image" ELSE "empty")

EngineRaised ==
  \/ AfterKeywords
  \/ call["engine"].phase = "vision" /\ EngineGoesTo("chat")
  \/ call["engine"].phase = "chat" /\ Replied("error")
  \/ AfterDraw("useless")

\* The feeling is inferred, then what is worth remembering; a failure of either is passed over.
TaskGoesOn ==
  call' = [call EXCEPT !["task"] =
    IF @.phase = "feel" THEN [Idle EXCEPT !.at = "ask", !.phase = "extract"] ELSE Idle]

Continue(c, v) ==
  \/ c = "heart" /\ Judged(v) /\ UNCHANGED reply
  \/ /\ c = "engine"
     /\ AfterKeywords \/ AfterChat(v) \/ AfterDraw(v)
     /\ UNCHANGED <<tries, outcome>>
  \/ c = "task" /\ TaskGoesOn /\ UNCHANGED <<tries, outcome, reply>>

--------------------------------------------------------------------------------
(* CachingBackend.generate.                                                   *)

Key(c) == [phase |-> call[c].phase, told |-> call[c].told]

Cacheable(c) == call[c].phase # "vision" /\ Temperature[call[c].phase] <= maxTemperature

\* A key has one entry.
Without(k) ==
  IF \E i \in DOMAIN cache : cache[i].key = k
    THEN RemoveAt(cache, CHOOSE i \in DOMAIN cache : cache[i].key = k)
    ELSE cache

Entries == {cache[i] : i \in DOMAIN cache}

Fresh(k) == {e \in Entries : e.key = k /\ e.age <= Ttl}

\* Mutation: nothing is evicted.
StoredUnbounded(k, v, since) ==
  Append(Without(k), [key |-> k, value |-> v, age |-> since, born |-> since])

\* Mutation: the age of an answer counts from its arrival.
StoredLate(k, v, since) ==
  LET es == Append(Without(k), [key |-> k, value |-> v, age |-> 0, born |-> since])
  IN  IF Len(es) > MaxEntries THEN Tail(es) ELSE es

\* The age counts from the request.
Stored(k, v, since) ==
  LET es == Append(Without(k), [key |-> k, value |-> v, age |-> since, born |-> since])
  IN  IF Len(es) > MaxEntries THEN Tail(es) ELSE es

\* Mutation: a hit makes the entry young again.
HitRefreshing(c) ==
  /\ call[c].at = "ask" /\ Cacheable(c)
  /\ \E e \in Fresh(Key(c)) :
       /\ cache' = Append(Without(Key(c)), [e EXCEPT !.age = 0])
       /\ Continue(c, e.value)
  /\ UNCHANGED <<maxTemperature, active, sane>>

Hit(c) ==
  /\ call[c].at = "ask" /\ Cacheable(c)
  /\ \E e \in Fresh(Key(c)) :
       /\ cache' = Append(Without(Key(c)), e)
       /\ Continue(c, e.value)
  /\ UNCHANGED <<maxTemperature, active, sane>>

\* An entry that has expired is removed.
Miss(c) ==
  /\ call[c].at = "ask" /\ Cacheable(c) /\ Fresh(Key(c)) = {}
  /\ cache' = Without(Key(c))
  /\ call' = [call EXCEPT ![c].at = "wait", ![c].since = 0]
  /\ UNCHANGED <<maxTemperature, active, tries, outcome, reply, sane>>

Bypass(c) ==
  /\ call[c].at = "ask" /\ ~Cacheable(c)
  /\ call' = [call EXCEPT ![c].at = "wait"]
  /\ UNCHANGED <<maxTemperature, active, cache, tries, outcome, reply, sane>>

\* generate() of the backends, without the reasoning.
Answer(c, v) ==
  /\ call[c].at = "wait" /\ v \in Answers(call[c].phase)
  /\ cache' = IF Cacheable(c) THEN Stored(Key(c), v, call[c].since) ELSE cache
  /\ Continue(c, v)
  /\ UNCHANGED <<maxTemperature, active, sane>>

\* Mutation: a request that fails is sent again.
Resend(c) ==
  /\ call[c].at = "wait"
  /\ c = "heart" => ~sane
  /\ call' = [call EXCEPT ![c].at = "ask"]
  /\ UNCHANGED <<maxTemperature, active, cache, tries, outcome, reply, sane>>

\* A timeout, a status or a format that is not expected raises, and no retry is made; a
\* response that is not JSON is for the heartbeat like an answer that is not.
Fail(c) ==
  /\ call[c].at = "wait"
  /\ c = "heart" => ~sane
  /\ \/ /\ c = "heart" /\ call' = [call EXCEPT !["heart"] = Idle] /\ outcome' = "raised"
        /\ UNCHANGED <<tries, reply>>
     \/ c = "heart" /\ Judged("unparsed") /\ UNCHANGED reply
     \/ c = "engine" /\ EngineRaised /\ UNCHANGED <<tries, outcome>>
     \/ c = "task" /\ TaskGoesOn /\ UNCHANGED <<tries, outcome, reply>>
  /\ UNCHANGED <<maxTemperature, active, cache, sane>>

--------------------------------------------------------------------------------
(* The callers.                                                               *)

\* The heartbeat evaluates a user the triage selected; the prompt of an evaluation carries no
\* time, so that a later one for the same reason is the same.
StartEvaluation ==
  /\ "heart" \in active /\ call["heart"].at = "idle"
  /\ call' = [call EXCEPT !["heart"] = HeartAsks(None)]
  /\ tries' = <<>>
  /\ UNCHANGED <<maxTemperature, active, cache, outcome, reply, sane>>

\* A message arrives; the bound of one task in the background is the environment's.
StartAnswer ==
  /\ "engine" \in active /\ call["engine"].at = "idle" /\ call["task"].at = "idle"
  /\ \E images \in BOOLEAN :
       call' = [call EXCEPT !["engine"] =
         [Idle EXCEPT !.at = "ask", !.phase = "keywords", !.images = images]]
  /\ UNCHANGED <<maxTemperature, active, cache, tries, outcome, reply, sane>>

\* The task of an earlier message, in a run without the engine.
StartTask ==
  /\ active = {"heart", "task"} /\ call["task"].at = "idle"
  /\ call' = [call EXCEPT !["task"] = [Idle EXCEPT !.at = "ask", !.phase = "feel"]]
  /\ UNCHANGED <<maxTemperature, active, cache, tries, outcome, reply, sane>>

Older(age) == IF age <= Ttl THEN age + 1 ELSE age

Tick ==
  /\ cache' = [i \in DOMAIN cache |->
       [cache[i] EXCEPT !.age = Older(@), !.born = Older(@)]]
  /\ call' = [c \in Caller |->
       IF call[c].at = "wait" /\ Cacheable(c) THEN [call[c] EXCEPT !.since = Older(@)] ELSE call[c]]
  /\ UNCHANGED <<maxTemperature, active, tries, outcome, reply, sane>>

\* The model is mended.
Mend ==
  /\ "heart" \in active /\ ~sane /\ sane' = TRUE
  /\ UNCHANGED <<maxTemperature, active, cache, call, tries, outcome, reply>>

Init ==
  /\ maxTemperature \in MaxTemperatures /\ active \in Callers
  /\ cache = <<>> /\ call = [c \in Caller |-> Idle]
  /\ tries = <<>>
  /\ outcome = None /\ reply = None /\ sane = FALSE

LookUp(c) == Hit(c) \/ Miss(c) \/ Bypass(c)

Respond(c) == Fail(c) \/ \E v \in Answers(call[c].phase) : Answer(c, v)

Next ==
  \/ StartEvaluation \/ StartAnswer \/ StartTask
  \/ \E c \in active : LookUp(c) \/ Respond(c)
  \/ Tick \/ Mend

Spec == Init /\ [][Next]_vars

\* The event loop goes on with what is ready, the client has a timeout and time passes.
FairSpec ==
  /\ Spec
  /\ \A c \in Caller : WF_vars(c \in active /\ LookUp(c)) /\ WF_vars(c \in active /\ Respond(c))
  /\ WF_vars(Tick)

--------------------------------------------------------------------------------
(* Properties.                                                                *)

Told == {None, "bad", "unparsed"}

Value == {"good", "bad", "unparsed", "odd", "text", "drawing", "think", "useless"}

CallRow ==
  [at : {"idle", "ask", "wait"}, phase : DOMAIN Temperature \cup {"vision", None}, told : Told,
   images : BOOLEAN, since : 0..(Ttl + 1)]

Entry ==
  [key : [phase : DOMAIN Temperature, told : Told], value : Value,
   age : 0..(Ttl + 1), born : 0..(Ttl + 1)]

\* Every variable has a value of its kind; the cache has at most MaxEntries entries, one of a
\* key, and none of a call that is too warm for it.
TypeOK ==
  /\ maxTemperature \in MaxTemperatures /\ active \in Callers
  /\ call \in [Caller -> CallRow]
  /\ cache \in Seq(Entry) /\ Len(cache) <= MaxEntries
  /\ \A i, j \in DOMAIN cache : cache[i].key = cache[j].key => i = j
  /\ \A i \in DOMAIN cache : Temperature[cache[i].key.phase] <= maxTemperature
  /\ tries \in Seq([told : Told, got : Value]) /\ Len(tries) <= Attempts /\ sane \in BOOLEAN
  /\ outcome \in {None, "good", "fallback", "raised"}
  /\ reply \in {None, "text", "image", "error", "empty"}

\* An answer from the cache is at most Ttl older than the request for it, however long the
\* model took and however often it was used (CachingBackend.generate).
AnswersAreFresh ==
  [][\A c \in Caller :
       call[c].at = "ask" /\ call'[c] # call[c] /\ call'[c].at # "wait"
         => \E e \in Entries : e.key = Key(c) /\ e.born <= Ttl]_vars

\* A retry is told what was wrong with the answer before it, and nothing else
\* (validated_ai_json).
RetryToldWhy ==
  \A i \in DOMAIN tries : tries[i].told = IF i = 1 THEN None ELSE tries[i - 1].got

\* The fallback is given up to only after all the attempts, and a good answer ends them.
FallbackIsLast ==
  /\ \A i \in DOMAIN tries : i < Len(tries) => tries[i].got \in {"bad", "unparsed"}
  /\ call["heart"].at = "idle" /\ outcome = "fallback" => Len(tries) = Attempts

\* Once the model gives valid answers, a heartbeat that evaluates the same user again and
\* again, for the same reason, gets them for ever after a while: bad ones do not survive in
\* the cache, however often they are asked for.
PoisonPasses ==
  <>sane /\ []<>(call["heart"].at # "idle") => <>[](outcome = "good")

\* Every call ends.
CallsEnd == \A c \in Caller : call[c].at # "idle" ~> call[c].at = "idle"

\* A retry asks the model (validated_ai_json: "1st attempt, validate, ... Max 2 retries").
EveryRetryAsks ==
  [][call["heart"].at = "ask" /\ call["heart"].told # None /\ call'["heart"] # call["heart"]
       => call'["heart"].at = "wait"]_vars

\* With a fallback the call of the heartbeat returns one when the answers are no use
\* (validated_ai_json: "On final failure, return fallback or raise").
OddIsRetried == [][\A v \in {"odd"} : tries' # tries /\ tries' # <<>> /\ tries'[Len(tries')].got = v
                     => outcome' # "raised"]_vars

\* The engine does not reply with nothing (engine.py tests for an empty answer).
NoEmptyReply == reply # "empty"
================================================================================
