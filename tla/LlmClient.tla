------------------------------- MODULE LlmClient -------------------------------
(***************************************************************************)
(* The LLM client (backend/services/llm.py): structured calls through a    *)
(* cache, a token budget and a sliding window of tokens per minute.        *)
(*                                                                         *)
(* A client makes one call after another (the agents await each answer).   *)
(* Clients share the cache; every scan job has a limiter of its own, the   *)
(* benchmark gives all its clients the same one (LimiterOf).  Time passes  *)
(* in ticks, Window of them are the 60 seconds, and an event has an age    *)
(* where the code has the time at which it was reserved.  An answer may    *)
(* come later than Window: llm_timeout_s is 90.                            *)
(***************************************************************************)
EXTENDS Integers, Sequences, FiniteSets

CONSTANTS
  Clients,      \* LLMClient objects
  Nobody,       \* no client
  LimiterOf,    \* the TokenLimiter of a client
  Prompts,      \* what is asked (system and user prompt, model, effort)
  Outdated,     \* prompts with a cached reply that no longer validates
  Estimate,     \* the tokens that a try of a prompt reserves
  MaxBill,      \* what the provider bills for an answer at most
  Limit,        \* settings.llm_tokens_per_minute
  Budget,       \* budget_tokens
  MaxRetries,   \* settings.llm_max_retries
  Window,       \* 60 seconds, in ticks
  MaxCalls      \* bound: calls of a client

Limiters == {LimiterOf[c] : c \in Clients}

ASSUME LlmClientAssumption ==
  /\ Nobody \notin Clients
  /\ Outdated \subseteq Prompts
  /\ Prompts # {} /\ Estimate \in [Prompts -> [{1, 2} -> Nat]]
  /\ MaxBill \in Nat /\ Limit \in Nat /\ Budget \in Nat
  /\ MaxRetries \in Nat \ {0} /\ Window \in Nat \ {0} /\ MaxCalls \in Nat

VARIABLES
  events,    \* the deque of a limiter, oldest first
  queue,     \* who holds (first) and who waits for the lock of a limiter
  cache,     \* "none", "valid" or "outdated" for every prompt
  pc,        \* where a client's call is
  prompt,    \* what it asks
  try,       \* first or second turn of complete_json
  attempt,   \* the attempt of _chat, from 0
  jsonMode,  \* "response_format" is in the body
  usage,     \* usage.total_tokens
  calls,     \* how many calls the client has made
  flight     \* the time since the request in flight was reserved

callvars == <<prompt, try, attempt, jsonMode, calls>>
vars == <<events, queue, cache, pc, usage, flight, callvars>>

Places == {"idle", "lookup", "chat", "waiting", "post", "backoff", "store", "crashed"}

\* Tokens reserved by a client, or billed (by Nobody).  `over` is the part
\* of a bill that was not reserved; the code does not keep it.
Event == [by : Clients \cup {Nobody}, age : 0..Window, tokens : Nat, over : Nat]

Entry(by, age, tokens, over) ==
  [by |-> by, age |-> age, tokens |-> tokens, over |-> over]

\* What the cache has for a prompt; redis forgets it after a week.
CacheStates == {"none", "valid", "outdated"}

Init ==
  /\ events = [l \in Limiters |-> <<>>]
  /\ queue = [l \in Limiters |-> <<>>]
  /\ cache = [p \in Prompts |-> IF p \in Outdated THEN "outdated" ELSE "none"]
  /\ pc = [c \in Clients |-> "idle"]
  /\ prompt = [c \in Clients |-> CHOOSE p \in Prompts : TRUE]
  /\ try = [c \in Clients |-> 1]
  /\ attempt = [c \in Clients |-> 0]
  /\ jsonMode = [c \in Clients |-> TRUE]
  /\ usage = [c \in Clients |-> 0]
  /\ calls = [c \in Clients |-> 0]
  /\ flight = [c \in Clients |-> 0]

Goto(c, place) == pc' = [pc EXCEPT ![c] = place]

-----------------------------------------------------------------------------
(* The token limiter.                                                      *)

Mine(c) == events[LimiterOf[c]]

\* The sum of a sequence of numbers: how many units there are at its places.
Units(n) == UNION {{i} \X (1..n[i]) : i \in DOMAIN n}

Total(n) == Cardinality(Units(n))

\* _used: the tokens of the events that are left.
Tokens(s) == Total([i \in DOMAIN s |-> s[i].tokens])

\* _used: s is what is left of the deque when its expired head is dropped.
Unexpired(s, k) ==
  /\ \A i \in 1..k : s[i].age = Window
  /\ k < Len(s) => s[k + 1].age # Window

\* Mutant: an oversized call reserves what it needs.
ReservedInFull(c) == Estimate[prompt[c]][try[c]]

Reserved(c) == LET e == Estimate[prompt[c]][try[c]] IN IF e <= Limit THEN e ELSE Limit

\* Mutant: the window is checked without the call's own tokens.
FitsWithoutItself(c, live) == Tokens(live) <= Limit

Fits(c, live) == Tokens(live) + Reserved(c) <= Limit

\* reserve, one pass of its loop while the client holds the lock.
Reserve(c) ==
  /\ pc[c] = "waiting"
  /\ queue[LimiterOf[c]] # <<>> /\ Head(queue[LimiterOf[c]]) = c
  /\ \E k \in 0..Len(Mine(c)) :
       LET live == SubSeq(Mine(c), k + 1, Len(Mine(c)))
           entry == Entry(c, 0, Reserved(c), 0)
       IN /\ Unexpired(Mine(c), k)
          /\ IF Fits(c, live)
             THEN /\ events' = [events EXCEPT ![LimiterOf[c]] = Append(live, entry)]
                  /\ queue' = [queue EXCEPT ![LimiterOf[c]] = Tail(@)]
                  /\ flight' = [flight EXCEPT ![c] = 0]
                  /\ Goto(c, "post")
             ELSE /\ events' = [events EXCEPT ![LimiterOf[c]] = live]
                  /\ UNCHANGED <<queue, flight, pc>>
  /\ UNCHANGED <<cache, usage, callvars>>

Excess(bill, tokens) == IF bill <= tokens THEN 0 ELSE bill - tokens

\* Mutant: the bill is added and the reservation stays.
SettleByAdding(c, bill) ==
  events' = [events EXCEPT ![LimiterOf[c]] = Append(@, Entry(Nobody, 0, bill, 0))]

\* settle: the reservation becomes the bill; if it has been dropped since,
\* the bill is a new event.
Settle(c, bill) ==
  LET billed(e) == Entry(Nobody, e.age, bill, Excess(bill, e.tokens))
  IN events' = [events EXCEPT ![LimiterOf[c]] =
       IF \E i \in 1..Len(@) : @[i].by = c
       THEN [i \in 1..Len(@) |-> IF @[i].by = c THEN billed(@[i]) ELSE @[i]]
       ELSE Append(@, Entry(Nobody, 0, bill, bill))]

-----------------------------------------------------------------------------
(* complete_json and _chat.                                                *)

\* The agent makes a call.
Call(c) ==
  /\ pc[c] = "idle" /\ calls[c] < MaxCalls
  /\ \E p \in Prompts : prompt' = [prompt EXCEPT ![c] = p]
  /\ calls' = [calls EXCEPT ![c] = @ + 1]
  /\ try' = [try EXCEPT ![c] = 1]
  /\ Goto(c, "lookup")
  /\ UNCHANGED <<events, queue, cache, attempt, jsonMode, usage, flight>>

\* A cached reply that validates is the answer, unless it has expired; redis
\* may also fail.
LookUp(c) ==
  /\ pc[c] = "lookup"
  /\ \/ Goto(c, IF cache[prompt[c]] = "valid" THEN "idle" ELSE "chat") /\ UNCHANGED cache
     \/ /\ cache[prompt[c]] = "valid" /\ Goto(c, "chat")
        /\ cache' = [cache EXCEPT ![prompt[c]] = "none"]
     \/ Goto(c, "crashed") /\ UNCHANGED cache
  /\ UNCHANGED <<events, queue, usage, flight, callvars>>

\* Mutant: only the first turn looks at the budget.
ChatUnchecked(c) ==
  /\ pc[c] = "chat"
  /\ IF try[c] = 1 /\ usage[c] >= Budget
     THEN /\ Goto(c, "idle") /\ UNCHANGED <<queue, attempt, jsonMode>>
     ELSE /\ attempt' = [attempt EXCEPT ![c] = 0]
          /\ jsonMode' = [jsonMode EXCEPT ![c] = TRUE]
          /\ queue' = [queue EXCEPT ![LimiterOf[c]] = Append(@, c)]
          /\ Goto(c, "waiting")
  /\ UNCHANGED <<events, cache, prompt, try, usage, calls, flight>>

\* _chat up to its loop: BudgetExceededError, or a request that queues for
\* the limiter.
Chat(c) ==
  /\ pc[c] = "chat"
  /\ IF usage[c] >= Budget
     THEN /\ Goto(c, "idle") /\ UNCHANGED <<queue, attempt, jsonMode>>
     ELSE /\ attempt' = [attempt EXCEPT ![c] = 0]
          /\ jsonMode' = [jsonMode EXCEPT ![c] = TRUE]
          /\ queue' = [queue EXCEPT ![LimiterOf[c]] = Append(@, c)]
          /\ Goto(c, "waiting")
  /\ UNCHANGED <<events, cache, prompt, try, usage, calls, flight>>

\* TransportError, 429 or a server error: the client sleeps, then the loop
\* goes on.
Unavailable(c) ==
  /\ pc[c] = "post"
  /\ Settle(c, 0)
  /\ attempt' = [attempt EXCEPT ![c] = @ + 1]
  /\ Goto(c, "backoff")
  /\ UNCHANGED <<queue, cache, prompt, try, jsonMode, usage, calls, flight>>

\* Mutant: the loop has no end.
NextAttemptForever(c) ==
  /\ queue' = [queue EXCEPT ![LimiterOf[c]] = Append(@, c)]
  /\ Goto(c, "waiting")

\* The head of the loop of attempts: another one, or LLMError.
NextAttempt(c) ==
  IF attempt'[c] < MaxRetries
  THEN /\ queue' = [queue EXCEPT ![LimiterOf[c]] = Append(@, c)]
       /\ Goto(c, "waiting")
  ELSE Goto(c, "idle") /\ UNCHANGED queue

Wake(c) ==
  /\ pc[c] = "backoff"
  /\ UNCHANGED attempt
  /\ NextAttempt(c)
  /\ UNCHANGED <<events, cache, prompt, try, jsonMode, usage, calls, flight>>

\* The provider could not generate JSON: once more without its JSON mode.
JsonModeFails(c) ==
  /\ pc[c] = "post" /\ jsonMode[c]
  /\ Settle(c, 0)
  /\ jsonMode' = [jsonMode EXCEPT ![c] = FALSE]
  /\ attempt' = [attempt EXCEPT ![c] = @ + 1]
  /\ NextAttempt(c)
  /\ UNCHANGED <<cache, prompt, try, usage, calls, flight>>

\* A retry-after of more than 300 seconds, or any other status: LLMError.
Refused(c) ==
  /\ pc[c] = "post"
  /\ Settle(c, 0)
  /\ Goto(c, "idle")
  /\ UNCHANGED <<queue, cache, usage, flight, callvars>>

\* extract_json and the validation of an answer; the last lacks the fields
\* that _chat reads.
Contents == {"valid", "invalid", "incomplete"}

\* What the answer holds decides what complete_json does with it; the
\* error of an incomplete one is not caught.
Continue(c, content) ==
  \/ content = "valid" /\ Goto(c, "store") /\ UNCHANGED try
  \/ /\ content = "invalid"
     /\ Goto(c, IF try[c] = 1 THEN "chat" ELSE "idle")
     /\ try' = [try EXCEPT ![c] = 2]
  \/ content = "incomplete" /\ Goto(c, "crashed") /\ UNCHANGED try

Answered(c) ==
  /\ pc[c] = "post"
  /\ \E bill \in 0..MaxBill :
       /\ Settle(c, bill)
       /\ usage' = [usage EXCEPT ![c] = @ + bill]
  /\ \E content \in Contents : Continue(c, content)
  /\ UNCHANGED <<queue, cache, prompt, attempt, jsonMode, calls, flight>>

\* A body that is not JSON, or a retry-after that is no number: the error
\* is not caught, and the first leaves the reservation as it is.
Unreadable(c) ==
  /\ pc[c] = "post"
  /\ Settle(c, 0) \/ UNCHANGED events
  /\ Goto(c, "crashed")
  /\ UNCHANGED <<queue, cache, usage, flight, callvars>>

\* cache.set, which may fail as well.
Store(c) ==
  /\ pc[c] = "store"
  /\ \/ cache' = [cache EXCEPT ![prompt[c]] = "valid"] /\ Goto(c, "idle")
     \/ Goto(c, "crashed") /\ UNCHANGED cache
  /\ UNCHANGED <<events, queue, usage, flight, callvars>>

Older(n) == IF n < Window THEN n + 1 ELSE Window

Aged(e) == Entry(e.by, Older(e.age), e.tokens, e.over)

Tick ==
  /\ events' = [l \in Limiters |->
       [i \in 1..Len(events[l]) |-> Aged(events[l][i])]]
  /\ flight' = [c \in Clients |-> IF pc[c] = "post" THEN Older(flight[c]) ELSE 0]
  /\ UNCHANGED <<queue, cache, pc, usage, callvars>>

Answer(c) ==
  Unavailable(c) \/ JsonModeFails(c) \/ Refused(c) \/ Answered(c) \/ Unreadable(c)

Advance(c) == LookUp(c) \/ Chat(c) \/ Reserve(c) \/ Answer(c) \/ Wake(c) \/ Store(c)

Next == Tick \/ \E c \in Clients : Call(c) \/ Advance(c)

Spec == Init /\ [][Next]_vars

\* Requests time out, sleeps end, and time passes.
FairSpec == Spec /\ WF_vars(Tick) /\ \A c \in Clients : WF_vars(Advance(c))

-----------------------------------------------------------------------------
(* Properties.                                                             *)

TypeOK ==
  /\ events \in [Limiters -> Seq(Event)]
  /\ queue \in [Limiters -> Seq(Clients)]
  /\ cache \in [Prompts -> CacheStates]
  /\ pc \in [Clients -> Places]
  /\ prompt \in [Clients -> Prompts]
  /\ try \in [Clients -> {1, 2}]
  /\ attempt \in [Clients -> 0..MaxRetries]
  /\ jsonMode \in [Clients -> BOOLEAN]
  /\ usage \in [Clients -> Nat]
  /\ calls \in [Clients -> 0..MaxCalls]
  /\ flight \in [Clients -> 0..Window]

\* What an event takes of the limit: nothing any more after a minute, and
\* never what was billed beyond its reservation.
Share(e) == IF e.age = Window THEN 0 ELSE e.tokens - e.over

Shares(s) == [i \in DOMAIN s |-> Share(s[i])]

\* The tokens of the last minute, without what was billed beyond its
\* reservation, are within the limit, whatever is refused, answered late
\* or expires meanwhile (TokenLimiter.reserve and settle).
WindowWithinLimit == \A l \in Limiters : Total(Shares(events[l])) <= Limit

\* README.md says of SCAN_TOKEN_BUDGET: "hard cap of LLM tokens per scan".  A scan
\* has one client, and what its answers were billed is within the budget.
BudgetIsHardCap == \A c \in Clients : usage[c] <= Budget

\* What holds of the budget instead: it is checked before every request and
\* charged after its answer, so that a client overshoots it by less than one
\* answer, through all second turns, retries and calls (_chat).
OvershootBounded == \A c \in Clients : usage[c] = 0 \/ usage[c] < Budget + MaxBill

\* A request in flight counts against the limit for a whole minute, and
\* only requests in flight, or of a call that crashed, hold tokens that are
\* not settled (reserve, settle, and the dropping of old events by _used).
ReservationsMatchRequests ==
  \A c \in Clients :
    /\ pc[c] = "post" =>
         flight[c] = Window \/ \E i \in DOMAIN Mine(c) : Mine(c)[i].by = c
    /\ \A i \in DOMAIN Mine(c) : Mine(c)[i].by = c => pc[c] \in {"post", "crashed"}

\* Every call ends: the tokens it waits for become free, whatever it
\* estimates, and its retries run out (reserve caps a call at the limit).
CallsEnd == \A c \in Clients : pc[c] = "lookup" ~> pc[c] \in {"idle", "crashed"}

=============================================================================
