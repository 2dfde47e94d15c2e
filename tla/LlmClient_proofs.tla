--------------------------- MODULE LlmClient_proofs ---------------------------
(***************************************************************************)
(* Proofs about the LLM client for any number of clients, limiters, calls  *)
(* and retries, any estimates, limit, budget and window.                   *)
(***************************************************************************)
EXTENDS LlmClient, SequenceTheorems, FiniteSetTheorems, TLAPS

-----------------------------------------------------------------------------
(* Types.                                                                  *)

\* Whoever waits for the limiter or the provider has an attempt left.
TypeInv ==
  /\ TypeOK
  /\ \A c \in Clients : pc[c] \in {"waiting", "post"} => attempt[c] < MaxRetries

LEMMA LimiterOfClient ==
  ASSUME NEW c \in Clients
  PROVE  LimiterOf[c] \in Limiters
BY DEF Limiters

LEMMA MineIsEvents ==
  ASSUME TypeOK, NEW c \in Clients
  PROVE  Mine(c) \in Seq(Event)
BY LimiterOfClient DEF TypeOK, Mine

LEMMA ReservedIsNat ==
  ASSUME TypeOK, NEW c \in Clients
  PROVE  Reserved(c) \in Nat
<1>1. prompt[c] \in Prompts /\ try[c] \in {1, 2}
  BY DEF TypeOK
<1>2. Estimate[prompt[c]] \in [{1, 2} -> Nat]
  BY <1>1, LlmClientAssumption
<1>3. Estimate[prompt[c]][try[c]] \in Nat /\ Limit \in Nat
  BY <1>1, <1>2, LlmClientAssumption
<1>4. QED BY <1>3 DEF Reserved

LEMMA EntryIsEvent ==
  ASSUME NEW by \in Clients \cup {Nobody}, NEW age \in 0..Window,
         NEW tokens \in Nat, NEW over \in Nat
  PROVE  Entry(by, age, tokens, over) \in Event
BY DEF Entry, Event

\* A settled reservation is an event again.
LEMMA SettleKeepsTypes ==
  ASSUME TypeOK, NEW c \in Clients, NEW bill \in Nat, Settle(c, bill)
  PROVE  events' \in [Limiters -> Seq(Event)]
<1> DEFINE s == events[LimiterOf[c]]
           billed(e) == Entry(Nobody, e.age, bill, Excess(bill, e.tokens))
           paid == [i \in 1..Len(s) |-> IF s[i].by = c THEN billed(s[i]) ELSE s[i]]
<1>1. s \in Seq(Event)
  BY LimiterOfClient DEF TypeOK
<1>2. ASSUME NEW e \in Event PROVE billed(e) \in Event
  <2>1. e.age \in 0..Window /\ Excess(bill, e.tokens) \in Nat
    BY DEF Event, Excess
  <2>2. QED BY <2>1, EntryIsEvent
<1>3. \A i \in 1..Len(s) : s[i] \in Event
  BY <1>1
<1>4. Len(s) \in Nat
  BY <1>1
<1>5. \A i \in 1..Len(s) : (IF s[i].by = c THEN billed(s[i]) ELSE s[i]) \in Event
  BY <1>2, <1>3
<1>6. paid \in Seq(Event)
  <2> DEFINE x(i) == IF s[i].by = c THEN billed(s[i]) ELSE s[i]
  <2> HIDE DEF x
  <2>1. [i \in 1..Len(s) |-> x(i)] \in Seq(Event)
    <3>1. \A i \in 1..Len(s) : x(i) \in Event
      BY <1>5 DEF x
    <3>2. QED BY <1>4, <3>1
  <2>2. QED BY <2>1 DEF x
<1>7. Append(s, Entry(Nobody, 0, bill, bill)) \in Seq(Event)
  <2>1. 0 \in 0..Window
    BY LlmClientAssumption
  <2>2. Entry(Nobody, 0, bill, bill) \in Event
    BY <2>1, EntryIsEvent
  <2>3. QED BY <1>1, <2>2
<1>8. events' = [events EXCEPT ![LimiterOf[c]] =
        IF \E i \in 1..Len(s) : s[i].by = c THEN paid ELSE Append(s, Entry(Nobody, 0, bill, bill))]
  BY DEF Settle
<1> HIDE DEF paid, s
<1>9. (IF \E i \in 1..Len(s) : s[i].by = c THEN paid ELSE Append(s, Entry(Nobody, 0, bill, bill)))
        \in Seq(Event)
  BY <1>6, <1>7
<1>10. QED BY <1>8, <1>9 DEF TypeOK

LEMMA QueueGrows ==
  ASSUME TypeOK, NEW c \in Clients
  PROVE  [queue EXCEPT ![LimiterOf[c]] = Append(@, c)] \in [Limiters -> Seq(Clients)]
BY LimiterOfClient DEF TypeOK

LEMMA InitTypes == Init => TypeInv
<1> SUFFICES ASSUME Init PROVE TypeInv
  OBVIOUS
<1>1. Prompts # {} => (CHOOSE p \in Prompts : TRUE) \in Prompts
  OBVIOUS
<1>2. QED
  BY <1>1, LlmClientAssumption DEF Init, TypeInv, TypeOK, CacheStates, Places

\* The next attempt joins the queue of the limiter or ends the call.
LEMMA NextAttemptKeepsTypes ==
  ASSUME TypeInv, NEW c \in Clients, NextAttempt(c),
         attempt' \in [Clients -> 0..MaxRetries],
         \A d \in Clients \ {c} : attempt'[d] = attempt[d]
  PROVE  /\ queue' \in [Limiters -> Seq(Clients)]
         /\ pc' \in [Clients -> Places]
         /\ \A d \in Clients : pc'[d] \in {"waiting", "post"} => attempt'[d] < MaxRetries
<1>1. CASE attempt'[c] < MaxRetries
  <2>1. queue' \in [Limiters -> Seq(Clients)]
    BY <1>1, QueueGrows DEF NextAttempt, TypeInv
  <2>2. pc' = [pc EXCEPT ![c] = "waiting"]
    BY <1>1 DEF NextAttempt, Goto
  <2>3. QED BY <1>1, <2>1, <2>2 DEF TypeInv, TypeOK, Places
<1>2. CASE ~(attempt'[c] < MaxRetries)
  <2>1. queue' = queue /\ pc' = [pc EXCEPT ![c] = "idle"]
    BY <1>2 DEF NextAttempt, Goto
  <2>2. QED BY <2>1 DEF TypeInv, TypeOK, Places
<1>3. QED BY <1>1, <1>2

LEMMA ReserveKeepsTypes ==
  ASSUME TypeInv, NEW c \in Clients, Reserve(c)
  PROVE  TypeInv'
<1> DEFINE l == LimiterOf[c]
           entry == Entry(c, 0, Reserved(c), 0)
<1>1. l \in Limiters /\ Mine(c) \in Seq(Event) /\ Mine(c) = events[l]
  BY LimiterOfClient, MineIsEvents DEF TypeInv, Mine
<1>2. PICK k \in 0..Len(Mine(c)) :
        LET live == SubSeq(Mine(c), k + 1, Len(Mine(c)))
        IN IF Fits(c, live)
           THEN /\ events' = [events EXCEPT ![l] = Append(live, entry)]
                /\ queue' = [queue EXCEPT ![l] = Tail(@)]
                /\ flight' = [flight EXCEPT ![c] = 0]
                /\ Goto(c, "post")
           ELSE /\ events' = [events EXCEPT ![l] = live]
                /\ UNCHANGED <<queue, flight, pc>>
  BY DEF Reserve
<1> DEFINE live == SubSeq(Mine(c), k + 1, Len(Mine(c)))
<1>3. live \in Seq(Event)
  BY <1>1, SubSeqProperties
<1>4. 0 \in 0..Window
  BY LlmClientAssumption
<1>5. entry \in Event
  BY <1>4, EntryIsEvent, ReservedIsNat DEF TypeInv
<1>6. Append(live, entry) \in Seq(Event)
  BY <1>3, <1>5
<1>7. UNCHANGED <<cache, usage, callvars>> /\ pc[c] = "waiting" /\ queue[l] # <<>>
  BY DEF Reserve
<1> HIDE DEF entry, live
<1>8. CASE Fits(c, live)
  <2>1. /\ events' = [events EXCEPT ![l] = Append(live, entry)]
        /\ queue' = [queue EXCEPT ![l] = Tail(@)]
        /\ flight' = [flight EXCEPT ![c] = 0]
        /\ pc' = [pc EXCEPT ![c] = "post"]
    BY <1>2, <1>8 DEF live, entry, Goto
  <2>2. events' \in [Limiters -> Seq(Event)]
    BY <1>6, <2>1 DEF TypeInv, TypeOK
  <2>3. Tail(queue[l]) \in Seq(Clients)
    BY <1>1, <1>7 DEF TypeInv, TypeOK
  <2>4. queue' \in [Limiters -> Seq(Clients)]
    BY <2>1, <2>3 DEF TypeInv, TypeOK
  <2>5. QED BY <1>4, <1>7, <2>1, <2>2, <2>4 DEF TypeInv, TypeOK, Places, callvars
<1>9. CASE ~Fits(c, live)
  <2>1. events' = [events EXCEPT ![l] = live] /\ UNCHANGED <<queue, flight, pc>>
    BY <1>2, <1>9 DEF live
  <2>2. events' \in [Limiters -> Seq(Event)]
    BY <1>3, <2>1 DEF TypeInv, TypeOK
  <2>3. QED BY <1>7, <2>1, <2>2 DEF TypeInv, TypeOK, callvars
<1>10. QED BY <1>8, <1>9

\* The steps that follow a request: each settles it, except an unreadable
\* body.
LEMMA AnswerKeepsTypes ==
  ASSUME TypeInv, NEW c \in Clients, Answer(c)
  PROVE  TypeInv'
<1> USE DEF TypeInv
<1>1. 0 \in Nat /\ 0..MaxBill \subseteq Nat
  BY LlmClientAssumption
<1>2. CASE Unavailable(c)
  <2>1. events' \in [Limiters -> Seq(Event)]
    BY <1>1, <1>2, SettleKeepsTypes DEF Unavailable
  <2>2. attempt' = [attempt EXCEPT ![c] = attempt[c] + 1] /\ attempt[c] < MaxRetries
    BY <1>2 DEF Unavailable
  <2>3. attempt' \in [Clients -> 0..MaxRetries]
    BY <2>2, LlmClientAssumption DEF TypeOK
  <2>4. QED BY <1>2, <2>1, <2>2, <2>3 DEF Unavailable, TypeOK, Goto, Places
<1>3. CASE JsonModeFails(c)
  <2>1. events' \in [Limiters -> Seq(Event)]
    BY <1>1, <1>3, SettleKeepsTypes DEF JsonModeFails
  <2>2. attempt' = [attempt EXCEPT ![c] = attempt[c] + 1] /\ attempt[c] < MaxRetries
    BY <1>3 DEF JsonModeFails
  <2>3. attempt' \in [Clients -> 0..MaxRetries] /\ \A d \in Clients \ {c} : attempt'[d] = attempt[d]
    BY <2>2, LlmClientAssumption DEF TypeOK
  <2>4. /\ queue' \in [Limiters -> Seq(Clients)]
        /\ pc' \in [Clients -> Places]
        /\ \A d \in Clients : pc'[d] \in {"waiting", "post"} => attempt'[d] < MaxRetries
    BY <1>3, <2>3, NextAttemptKeepsTypes DEF JsonModeFails
  <2>5. QED BY <1>3, <2>1, <2>3, <2>4 DEF JsonModeFails, TypeOK
<1>4. CASE Refused(c)
  <2>1. events' \in [Limiters -> Seq(Event)]
    BY <1>1, <1>4, SettleKeepsTypes DEF Refused
  <2>2. QED BY <1>4, <2>1 DEF Refused, TypeOK, Goto, Places, callvars
<1>5. CASE Answered(c)
  <2>1. PICK bill \in 0..MaxBill : Settle(c, bill) /\ usage' = [usage EXCEPT ![c] = @ + bill]
    BY <1>5 DEF Answered
  <2>2. events' \in [Limiters -> Seq(Event)]
    BY <1>1, <2>1, SettleKeepsTypes
  <2>3. usage' \in [Clients -> Nat]
    BY <1>1, <2>1 DEF TypeOK
  <2>4. PICK content \in Contents : Continue(c, content)
    BY <1>5 DEF Answered
  <2>5. /\ pc' \in [Clients -> Places] /\ try' \in [Clients -> {1, 2}]
        /\ \A d \in Clients : pc'[d] \in {"waiting", "post"} => pc'[d] = pc[d]
    BY <2>4 DEF Continue, Goto, TypeOK, Places
  <2>6. QED BY <1>5, <2>2, <2>3, <2>5 DEF Answered, TypeOK
<1>6. CASE Unreadable(c)
  <2>1. events' \in [Limiters -> Seq(Event)]
    <3>1. CASE Settle(c, 0)
      BY <1>1, <3>1, SettleKeepsTypes
    <3>2. CASE UNCHANGED events
      BY <3>2 DEF TypeOK
    <3>3. QED BY <1>6, <3>1, <3>2 DEF Unreadable
  <2>2. QED BY <1>6, <2>1 DEF Unreadable, TypeOK, Goto, Places, callvars
<1>7. QED BY <1>2, <1>3, <1>4, <1>5, <1>6 DEF Answer

LEMMA TickKeepsTypes ==
  ASSUME TypeInv, Tick
  PROVE  TypeInv'
<1> USE DEF TypeInv
<1>1. \A n \in 0..Window : Older(n) \in 0..Window
  BY LlmClientAssumption DEF Older
<1>2. ASSUME NEW e \in Event PROVE Aged(e) \in Event
  BY <1>1 DEF Aged, Entry, Event
<1>3. ASSUME NEW l \in Limiters
      PROVE  [i \in 1..Len(events[l]) |-> Aged(events[l][i])] \in Seq(Event)
  <2>1. events[l] \in Seq(Event)
    BY DEF TypeOK
  <2>2. \A i \in 1..Len(events[l]) : Aged(events[l][i]) \in Event
    BY <1>2, <2>1
  <2>3. Len(events[l]) \in Nat
    BY <2>1
  <2>4. QED BY <2>2, <2>3
<1>4. events' \in [Limiters -> Seq(Event)]
  BY <1>3 DEF Tick
<1>5. 0 \in 0..Window
  BY LlmClientAssumption
<1>6. flight' \in [Clients -> 0..Window]
  BY <1>1, <1>5 DEF Tick, TypeOK
<1>7. QED BY <1>4, <1>6 DEF Tick, TypeOK, callvars

LEMMA StepKeepsTypes == TypeInv /\ [Next]_vars => TypeInv'
<1> SUFFICES ASSUME TypeInv, [Next]_vars PROVE TypeInv'
  OBVIOUS
<1>1. CASE Tick
  BY <1>1, TickKeepsTypes
<1>2. ASSUME NEW c \in Clients, Call(c) PROVE TypeInv'
  <2>1. calls' \in [Clients -> 0..MaxCalls]
    <3>1. calls' = [calls EXCEPT ![c] = @ + 1] /\ calls[c] < MaxCalls
      BY <1>2 DEF Call
    <3>2. calls \in [Clients -> 0..MaxCalls] /\ calls[c] \in 0..MaxCalls
      BY DEF TypeInv, TypeOK
    <3>3. calls[c] + 1 \in 0..MaxCalls
      BY <3>1, <3>2, LlmClientAssumption
    <3>4. QED BY <3>1, <3>2, <3>3
  <2>2. QED BY <1>2, <2>1 DEF Call, Goto, TypeInv, TypeOK, Places
<1>3. ASSUME NEW c \in Clients, LookUp(c) PROVE TypeInv'
  <2>1. cache' \in [Prompts -> CacheStates]
    BY <1>3 DEF LookUp, TypeInv, TypeOK, CacheStates
  <2>2. PICK place \in {"idle", "chat", "crashed"} : Goto(c, place)
    BY <1>3 DEF LookUp
  <2>3. pc' \in [Clients -> Places] /\ \A d \in Clients : pc'[d] \in {"waiting", "post"} => pc'[d] = pc[d]
    BY <2>2 DEF Goto, TypeInv, TypeOK, Places
  <2>4. QED BY <1>3, <2>1, <2>3 DEF LookUp, TypeInv, TypeOK, callvars
<1>4. ASSUME NEW c \in Clients, Chat(c) PROVE TypeInv'
  <2>1. queue' \in [Limiters -> Seq(Clients)]
    BY <1>4, QueueGrows DEF Chat, TypeInv, TypeOK
  <2>2. \/ pc' = [pc EXCEPT ![c] = "idle"] /\ UNCHANGED <<attempt, jsonMode>>
        \/ /\ pc' = [pc EXCEPT ![c] = "waiting"]
           /\ attempt' = [attempt EXCEPT ![c] = 0]
           /\ jsonMode' = [jsonMode EXCEPT ![c] = TRUE]
    BY <1>4 DEF Chat, Goto
  <2>3. 0 \in 0..MaxRetries /\ 0 < MaxRetries
    BY LlmClientAssumption
  <2>4. attempt' \in [Clients -> 0..MaxRetries] /\ jsonMode' \in [Clients -> BOOLEAN]
    <3>1. attempt' \in [Clients -> 0..MaxRetries]
      BY <2>2, <2>3 DEF TypeInv, TypeOK
    <3>2. jsonMode' \in [Clients -> BOOLEAN]
      <4>1. jsonMode \in [Clients -> BOOLEAN]
        BY DEF TypeInv, TypeOK
      <4>2. QED BY <2>2, <4>1
    <3>3. QED BY <3>1, <3>2
  <2>5. pc' \in [Clients -> Places]
    BY <2>2 DEF TypeInv, TypeOK, Places
  <2>6. \A d \in Clients : pc'[d] \in {"waiting", "post"} => attempt'[d] < MaxRetries
    BY <2>2, <2>3 DEF TypeInv, TypeOK
  <2>7. QED BY <1>4, <2>1, <2>4, <2>5, <2>6 DEF Chat, TypeInv, TypeOK
<1>5. ASSUME NEW c \in Clients, Wake(c) PROVE TypeInv'
  <2>1. attempt' = attempt
    BY <1>5 DEF Wake
  <2>2. /\ queue' \in [Limiters -> Seq(Clients)]
        /\ pc' \in [Clients -> Places]
        /\ \A d \in Clients : pc'[d] \in {"waiting", "post"} => attempt'[d] < MaxRetries
    BY <1>5, <2>1, NextAttemptKeepsTypes DEF Wake, TypeInv, TypeOK
  <2>3. QED BY <1>5, <2>2 DEF Wake, TypeInv, TypeOK
<1>6. ASSUME NEW c \in Clients, Store(c) PROVE TypeInv'
  <2>1. cache' \in [Prompts -> CacheStates]
    BY <1>6 DEF Store, TypeInv, TypeOK, CacheStates
  <2>2. pc' \in [Clients -> Places] /\ \A d \in Clients : pc'[d] \in {"waiting", "post"} => pc'[d] = pc[d]
    BY <1>6 DEF Store, Goto, TypeInv, TypeOK, Places
  <2>3. QED BY <1>6, <2>1, <2>2 DEF Store, TypeInv, TypeOK, callvars
<1>7. CASE UNCHANGED vars
  BY <1>7 DEF vars, callvars, TypeInv, TypeOK
<1>8. QED
  BY <1>1, <1>2, <1>3, <1>4, <1>5, <1>6, <1>7, ReserveKeepsTypes, AnswerKeepsTypes
  DEF Next, Advance

\* The variables have their types (llm.py).
THEOREM TypeCorrect == Spec => []TypeOK
<1>1. TypeInv => TypeOK
  BY DEF TypeInv
<1>2. QED BY <1>1, InitTypes, StepKeepsTypes, PTL DEF Spec

-----------------------------------------------------------------------------
(* The budget.                                                             *)

\* Between the check of the budget and the charge nothing is spent: only
\* the client's own call adds to its usage.
BudgetInv ==
  /\ OvershootBounded
  /\ \A c \in Clients : pc[c] \in {"waiting", "post", "backoff"} => usage[c] < Budget

LEMMA AnswerKeepsBudget ==
  ASSUME TypeInv, BudgetInv, NEW c \in Clients, Answer(c)
  PROVE  BudgetInv'
<1>1. pc[c] = "post" /\ usage[c] < Budget /\ usage[c] \in Nat
  BY DEF Answer, Unavailable, JsonModeFails, Refused, Answered, Unreadable,
         BudgetInv, TypeInv, TypeOK
<1>2. CASE Answered(c)
  <2>1. PICK bill \in 0..MaxBill : usage' = [usage EXCEPT ![c] = usage[c] + bill]
    BY <1>2 DEF Answered
  <2>2. pc'[c] \notin {"waiting", "post", "backoff"} /\ \A d \in Clients \ {c} : pc'[d] = pc[d]
    BY <1>2 DEF Answered, Continue, Goto, TypeInv, TypeOK
  <2>3. usage'[c] < Budget + MaxBill /\ \A d \in Clients \ {c} : usage'[d] = usage[d]
    BY <1>1, <2>1, LlmClientAssumption DEF TypeInv, TypeOK
  <2>4. QED BY <2>2, <2>3 DEF BudgetInv, OvershootBounded
<1>3. CASE ~Answered(c)
  <2>1. usage' = usage
    BY <1>3 DEF Answer, Unavailable, JsonModeFails, Refused, Unreadable
  <2>2. \A d \in Clients \ {c} : pc'[d] = pc[d]
    BY <1>3 DEF Answer, Unavailable, JsonModeFails, Refused, Unreadable, NextAttempt,
                Goto, TypeInv, TypeOK
  <2>3. QED BY <1>1, <2>1, <2>2 DEF BudgetInv, OvershootBounded
<1>4. QED BY <1>2, <1>3

LEMMA StepKeepsBudget == TypeInv /\ BudgetInv /\ [Next]_vars => BudgetInv'
<1> SUFFICES ASSUME TypeInv, BudgetInv, [Next]_vars PROVE BudgetInv'
  OBVIOUS
<1>1. ASSUME NEW c \in Clients, Call(c) \/ LookUp(c) \/ Store(c) PROVE BudgetInv'
  <2>1. usage' = usage /\ \A d \in Clients : pc'[d] \in {"waiting", "post", "backoff"} => pc'[d] = pc[d]
    BY <1>1 DEF Call, LookUp, Store, Goto, TypeInv, TypeOK
  <2>2. QED BY <2>1 DEF BudgetInv, OvershootBounded
<1>2. ASSUME NEW c \in Clients, Chat(c) PROVE BudgetInv'
  <2>1. usage' = usage /\ \A d \in Clients \ {c} : pc'[d] = pc[d]
    BY <1>2 DEF Chat, Goto, TypeInv, TypeOK
  <2>2. pc'[c] = "idle" \/ usage[c] < Budget
    BY <1>2, LlmClientAssumption DEF Chat, Goto, TypeInv, TypeOK
  <2>3. QED BY <2>1, <2>2 DEF BudgetInv, OvershootBounded
<1>3. ASSUME NEW c \in Clients, Reserve(c) \/ Wake(c) PROVE BudgetInv'
  <2>1. usage' = usage /\ pc[c] \in {"waiting", "backoff"} /\ \A d \in Clients \ {c} : pc'[d] = pc[d]
    BY <1>3 DEF Reserve, Wake, NextAttempt, Goto, TypeInv, TypeOK
  <2>2. QED BY <2>1 DEF BudgetInv, OvershootBounded
<1>4. CASE Tick \/ UNCHANGED vars
  <2>1. usage' = usage /\ pc' = pc
    BY <1>4 DEF Tick, vars
  <2>2. QED BY <2>1 DEF BudgetInv, OvershootBounded
<1>5. QED BY <1>1, <1>2, <1>3, <1>4, AnswerKeepsBudget DEF Next, Advance

\* A client overshoots its budget by less than one answer, whatever the
\* other clients, the limiter and the provider do (_chat).
THEOREM BudgetOvershootBounded == Spec => []OvershootBounded
<1>1. Init => BudgetInv
  BY DEF Init, BudgetInv, OvershootBounded
<1>2. BudgetInv => OvershootBounded
  BY DEF BudgetInv
<1>3. QED BY <1>1, <1>2, InitTypes, StepKeepsTypes, StepKeepsBudget, PTL DEF Spec

-----------------------------------------------------------------------------
(* Reservations and requests.                                              *)

\* The ages of the reservations of a client in a deque, and in its own.
HeldIn(s, c) == {s[i].age : i \in {j \in 1..Len(s) : s[j].by = c}}

Held(c) == HeldIn(Mine(c), c)

\* A request in flight holds one reservation as old as itself, until it is
\* as old as the window.
HeldOK(c) ==
  /\ pc[c] = "post" => Held(c) \subseteq {flight[c]}
  /\ pc[c] = "post" => flight[c] = Window \/ Held(c) # {}
  /\ pc[c] \notin {"post", "crashed"} => Held(c) = {}

HeldInv == \A c \in Clients : HeldOK(c)

LEMMA HeldStays ==
  ASSUME NEW c \in Clients, HeldOK(c), Held(c)' = Held(c), pc'[c] = pc[c],
         flight'[c] = flight[c]
  PROVE  HeldOK(c)'
BY DEF HeldOK

\* A client that holds nothing may be anywhere but in flight.
LEMMA NothingHeld ==
  ASSUME NEW c \in Clients, Held(c)' = {}, pc'[c] # "post"
  PROVE  HeldOK(c)'
BY DEF HeldOK

\* Settling frees what the client holds, and only that.
LEMMA SettleFrees ==
  ASSUME TypeOK, NEW c \in Clients, NEW bill \in Nat, Settle(c, bill)
  PROVE  /\ Held(c)' = {}
         /\ \A d \in Clients \ {c} : Held(d)' = Held(d)
<1> DEFINE s == events[LimiterOf[c]]
           billed(e) == Entry(Nobody, e.age, bill, Excess(bill, e.tokens))
           paid == [i \in 1..Len(s) |-> IF s[i].by = c THEN billed(s[i]) ELSE s[i]]
           last == Entry(Nobody, 0, bill, bill)
<1>1. s \in Seq(Event) /\ Len(s) \in Nat /\ LimiterOf[c] \in Limiters
  BY LimiterOfClient DEF TypeOK
<1>2. events' = [events EXCEPT ![LimiterOf[c]] =
        IF \E i \in 1..Len(s) : s[i].by = c THEN paid ELSE Append(s, last)]
  BY DEF Settle
<1>3. ASSUME NEW d \in Clients, LimiterOf[d] # LimiterOf[c] PROVE Held(d)' = Held(d)
  <2>1. Mine(d)' = Mine(d)
    BY <1>2, <1>3, LimiterOfClient DEF Mine, TypeOK
  <2>2. QED BY <2>1 DEF Held
<1>4. Nobody \notin Clients
  BY LlmClientAssumption
<1>5. CASE \E i \in 1..Len(s) : s[i].by = c
  <2>1. events'[LimiterOf[c]] = paid
    BY <1>1, <1>2, <1>5 DEF TypeOK
  <2>2. Len(paid) = Len(s)
    BY <1>1
  <2>3. \A i \in 1..Len(s) : /\ paid[i].age = s[i].age
                             /\ paid[i].by = (IF s[i].by = c THEN Nobody ELSE s[i].by)
    BY DEF Entry
  <2> HIDE DEF paid, s
  <2>4. ASSUME NEW d \in Clients, LimiterOf[d] = LimiterOf[c]
        PROVE  Held(d)' = (IF d = c THEN {} ELSE Held(d))
    <3>1. Held(d)' = {paid[i].age : i \in {j \in 1..Len(s) : paid[j].by = d}}
      BY <2>1, <2>2, <2>4 DEF Held, HeldIn, Mine
    <3>2. Held(d) = {s[i].age : i \in {j \in 1..Len(s) : s[j].by = d}}
      BY <2>4 DEF Held, HeldIn, Mine, s
    <3>3. CASE d = c
      BY <1>4, <2>3, <3>1, <3>3
    <3>4. CASE d # c
      BY <1>4, <2>3, <3>1, <3>2, <3>4
    <3>5. QED BY <3>3, <3>4
  <2>5. QED BY <1>3, <2>4
<1>6. CASE ~ \E i \in 1..Len(s) : s[i].by = c
  <2>1. events'[LimiterOf[c]] = Append(s, last)
    BY <1>1, <1>2, <1>6 DEF TypeOK
  <2>2. /\ Len(Append(s, last)) = Len(s) + 1
        /\ \A i \in 1..Len(s) : Append(s, last)[i] = s[i]
        /\ Append(s, last)[Len(s) + 1] = last
    BY <1>1
  <2>3. last.by = Nobody
    BY DEF Entry
  <2> DEFINE t == Append(s, last)
  <2> HIDE DEF last, s, t
  <2>4. ASSUME NEW d \in Clients, LimiterOf[d] = LimiterOf[c]
        PROVE  Held(d)' = (IF d = c THEN {} ELSE Held(d))
    <3>1. Held(d)' = {t[i].age : i \in {j \in 1..(Len(s) + 1) : t[j].by = d}}
      BY <2>1, <2>2, <2>4 DEF Held, HeldIn, Mine, t
    <3>2. Held(d) = {s[i].age : i \in {j \in 1..Len(s) : s[j].by = d}}
      BY <2>4 DEF Held, HeldIn, Mine, s
    <3>3. \A j \in 1..(Len(s) + 1) : t[j].by = d <=> j \in 1..Len(s) /\ s[j].by = d
      BY <1>1, <1>4, <2>2, <2>3 DEF t
    <3>4. Held(d)' = Held(d)
      BY <1>1, <2>2, <3>1, <3>2, <3>3 DEF t
    <3>5. d = c => Held(d) = {}
      BY <1>6, <3>2
    <3>6. QED BY <3>4, <3>5
  <2>5. QED BY <1>3, <2>4
<1>7. QED BY <1>5, <1>6

\* Dropping the expired head of the deque frees nothing that is younger
\* than the window.
LEMMA DropKeepsYoung ==
  ASSUME NEW s \in Seq(Event), NEW k \in 0..Len(s), Unexpired(s, k), NEW d
  PROVE  /\ HeldIn(SubSeq(s, k + 1, Len(s)), d) \subseteq HeldIn(s, d)
         /\ HeldIn(s, d) \ {Window} \subseteq HeldIn(SubSeq(s, k + 1, Len(s)), d)
<1> DEFINE live == SubSeq(s, k + 1, Len(s))
<1>1. Len(s) \in Nat /\ Len(live) = Len(s) - k
  BY SubSeqProperties
<1>2. \A i \in 1..(Len(s) - k) : live[i] = s[k + i]
  BY <1>1, SubSeqProperties
<1>3. \A i \in 1..k : s[i].age = Window
  BY DEF Unexpired
<1> HIDE DEF live
<1>4. HeldIn(live, d) \subseteq HeldIn(s, d)
  <2>1. \A i \in 1..(Len(s) - k) : k + i \in 1..Len(s)
    BY <1>1
  <2>2. QED BY <1>1, <1>2, <2>1 DEF HeldIn
<1>5. ASSUME NEW i \in 1..Len(s), s[i].by = d, s[i].age # Window
      PROVE  s[i].age \in HeldIn(live, d)
  <2>1. i - k \in 1..(Len(s) - k) /\ k + (i - k) = i
    BY <1>1, <1>3, <1>5
  <2>2. live[i - k] = s[i]
    BY <1>2, <2>1
  <2>3. QED BY <1>1, <1>5, <2>1, <2>2 DEF HeldIn
<1>6. HeldIn(s, d) \ {Window} \subseteq HeldIn(live, d)
  BY <1>5 DEF HeldIn
<1>7. QED BY <1>4, <1>6 DEF live

LEMMA ReserveKeepsHeld ==
  ASSUME TypeInv, HeldInv, NEW c \in Clients, Reserve(c)
  PROVE  HeldInv'
<1> DEFINE l == LimiterOf[c]
           entry == Entry(c, 0, Reserved(c), 0)
           s == Mine(c)
<1>1. l \in Limiters /\ s \in Seq(Event) /\ s = events[l]
  BY LimiterOfClient, MineIsEvents DEF TypeInv, Mine
<1>2. PICK k \in 0..Len(s) :
        /\ Unexpired(s, k)
        /\ LET live == SubSeq(s, k + 1, Len(s))
           IN IF Fits(c, live)
              THEN /\ events' = [events EXCEPT ![l] = Append(live, entry)]
                   /\ flight' = [flight EXCEPT ![c] = 0]
                   /\ Goto(c, "post")
              ELSE /\ events' = [events EXCEPT ![l] = live]
                   /\ UNCHANGED <<queue, flight, pc>>
  BY DEF Reserve
<1> DEFINE live == SubSeq(s, k + 1, Len(s))
<1>3. live \in Seq(Event)
  BY <1>1, SubSeqProperties
<1>4. \A d \in Clients : HeldIn(live, d) \subseteq HeldIn(s, d) /\ HeldIn(s, d) \ {Window} \subseteq HeldIn(live, d)
  BY <1>1, <1>2, DropKeepsYoung
<1>5. pc[c] = "waiting" /\ Held(c) = {}
  BY DEF Reserve, HeldInv, HeldOK
<1>6. entry.by = c /\ entry.age = 0
  BY DEF Entry
<1>7. \A d \in Clients : LimiterOf[d] = l => Held(d) = HeldIn(s, d)
  BY DEF Held, HeldIn, Mine
<1> HIDE DEF entry, live, s
<1>8. ASSUME NEW d \in Clients, LimiterOf[d] # l PROVE HeldOK(d)'
  <2>1. d # c /\ Mine(d)' = Mine(d) /\ pc'[d] = pc[d] /\ flight'[d] = flight[d]
    <3>1. CASE Fits(c, SubSeq(s, k + 1, Len(s)))
      BY <1>2, <1>8, <3>1, LimiterOfClient DEF Mine, Goto, TypeInv, TypeOK
    <3>2. CASE ~Fits(c, SubSeq(s, k + 1, Len(s)))
      BY <1>2, <1>8, <3>2, LimiterOfClient DEF Mine, Goto, TypeInv, TypeOK
    <3>3. QED BY <3>1, <3>2
  <2>2. Held(d)' = Held(d)
    BY <2>1 DEF Held
  <2>3. QED BY <2>1, <2>2, HeldStays DEF HeldInv
<1>9. ASSUME NEW d \in Clients, LimiterOf[d] = l, d # c, Held(d)' = HeldIn(live, d),
             pc'[d] = pc[d], flight'[d] = flight[d]
      PROVE  HeldOK(d)'
  <2>1. Held(d)' \subseteq Held(d) /\ Held(d) \ {Window} \subseteq Held(d)'
    BY <1>4, <1>7, <1>9
  <2>2. HeldOK(d)
    BY DEF HeldInv
  <2>3. QED BY <1>9, <2>1, <2>2 DEF HeldOK
<1>10. CASE Fits(c, live)
  <2>1. /\ events' = [events EXCEPT ![l] = Append(live, entry)]
        /\ flight' = [flight EXCEPT ![c] = 0]
        /\ pc' = [pc EXCEPT ![c] = "post"]
    BY <1>2, <1>10 DEF live, Goto
  <2> DEFINE t == Append(live, entry)
  <2>2. /\ Len(live) \in Nat /\ Len(t) = Len(live) + 1
        /\ \A i \in 1..Len(live) : t[i] = live[i]
        /\ t[Len(live) + 1] = entry
    BY <1>3
  <2>3. ASSUME NEW d \in Clients, LimiterOf[d] = l
        PROVE  Held(d)' = {t[i].age : i \in {j \in 1..(Len(live) + 1) : t[j].by = d}}
    <3>1. Mine(d)' = t
      BY <1>1, <2>1, <2>3 DEF Mine, TypeInv, TypeOK
    <3>2. QED BY <2>2, <3>1 DEF Held, HeldIn
  <2> HIDE DEF t
  <2>4. ASSUME NEW d \in Clients, LimiterOf[d] = l, d # c PROVE HeldOK(d)'
    <3>1. \A j \in 1..(Len(live) + 1) :
            t[j].by = d <=> j \in 1..Len(live) /\ live[j].by = d
      BY <1>6, <2>2, <2>4
    <3>2. Held(d)' = HeldIn(live, d)
      BY <2>2, <2>3, <2>4, <3>1 DEF HeldIn
    <3>3. pc'[d] = pc[d] /\ flight'[d] = flight[d]
      BY <2>1, <2>4 DEF TypeInv, TypeOK
    <3>4. QED BY <1>9, <2>4, <3>2, <3>3
  <2>5. Held(c)' = {0}
    <3>1. HeldIn(live, c) = {}
      BY <1>4, <1>5, <1>7
    <3>2. \A j \in 1..(Len(live) + 1) : t[j].by = c <=> j = Len(live) + 1
      <4>1. \A j \in 1..Len(live) : live[j].by # c
        BY <3>1 DEF HeldIn
      <4>2. QED BY <1>6, <2>2, <4>1
    <3>3. QED BY <1>6, <2>2, <2>3, <3>2
  <2>6. HeldOK(c)'
    BY <2>1, <2>5 DEF HeldOK, TypeInv, TypeOK
  <2>7. QED BY <1>8, <2>4, <2>6 DEF HeldInv
<1>11. CASE ~Fits(c, live)
  <2>1. events' = [events EXCEPT ![l] = live] /\ flight' = flight /\ pc' = pc
    BY <1>2, <1>11 DEF live
  <2>2. ASSUME NEW d \in Clients, LimiterOf[d] = l PROVE Held(d)' = HeldIn(live, d)
    <3>1. Mine(d)' = live
      BY <1>1, <2>1, <2>2 DEF Mine, TypeInv, TypeOK
    <3>2. QED BY <3>1 DEF Held, HeldIn
  <2>3. Held(c)' = {} /\ pc'[c] # "post"
    BY <1>4, <1>5, <1>7, <2>1, <2>2
  <2>4. HeldOK(c)'
    BY <2>3, NothingHeld
  <2>5. QED BY <1>8, <1>9, <2>1, <2>2, <2>4 DEF HeldInv
<1>12. QED BY <1>10, <1>11

LEMMA TickKeepsHeld ==
  ASSUME TypeInv, HeldInv, Tick
  PROVE  HeldInv'
<1> SUFFICES ASSUME NEW c \in Clients PROVE HeldOK(c)'
  BY DEF HeldInv
<1> DEFINE s == Mine(c)
<1>1. s \in Seq(Event) /\ Len(s) \in Nat
  BY MineIsEvents DEF TypeInv
<1>2. Mine(c)' = [i \in 1..Len(s) |-> Aged(s[i])]
  BY LimiterOfClient DEF Tick, Mine
<1>3. \A i \in 1..Len(s) : Aged(s[i]).by = s[i].by /\ Aged(s[i]).age = Older(s[i].age)
  BY DEF Aged, Entry
<1>4. Len(Mine(c)') = Len(s)
  BY <1>1, <1>2
<1>5. Held(c)' = {Older(s[i].age) : i \in {j \in 1..Len(s) : s[j].by = c}}
  BY <1>2, <1>3, <1>4 DEF Held, HeldIn
<1>6. Held(c) = {s[i].age : i \in {j \in 1..Len(s) : s[j].by = c}}
  BY DEF Held, HeldIn
<1> HIDE DEF s
<1>7. HeldOK(c) /\ pc' = pc /\ (pc[c] = "post" => flight'[c] = Older(flight[c]))
  BY DEF HeldInv, Tick
<1>8. Older(Window) = Window
  BY LlmClientAssumption DEF Older
<1>9. Held(c)' = {Older(a) : a \in Held(c)}
  BY <1>5, <1>6
<1>10. pc[c] = "post" => HeldOK(c)'
  BY <1>7, <1>8, <1>9 DEF HeldOK
<1>11. pc[c] # "post" => HeldOK(c)'
  BY <1>7, <1>9 DEF HeldOK
<1>12. QED BY <1>10, <1>11

LEMMA StepKeepsHeld == TypeInv /\ HeldInv /\ [Next]_vars => HeldInv'
<1> SUFFICES ASSUME TypeInv, HeldInv, [Next]_vars PROVE HeldInv'
  OBVIOUS
<1>1. ASSUME NEW c \in Clients, NEW bill \in Nat, Settle(c, bill), flight' = flight,
             pc'[c] # "post", \A d \in Clients \ {c} : pc'[d] = pc[d]
      PROVE  HeldInv'
  <2>1. Held(c)' = {} /\ \A d \in Clients \ {c} : Held(d)' = Held(d)
    BY <1>1, SettleFrees DEF TypeInv
  <2>2. HeldOK(c)'
    BY <1>1, <2>1, NothingHeld
  <2>3. ASSUME NEW d \in Clients \ {c} PROVE HeldOK(d)'
    BY <1>1, <2>1, HeldStays DEF HeldInv
  <2>4. QED BY <2>2, <2>3 DEF HeldInv
<1>2. ASSUME NEW c \in Clients, events' = events, flight' = flight,
             pc'[c] # "post", pc[c] \notin {"post", "crashed"} \/ pc'[c] = "crashed",
             \A d \in Clients \ {c} : pc'[d] = pc[d]
      PROVE  HeldInv'
  <2>1. \A d \in Clients : Held(d)' = Held(d)
    BY <1>2 DEF Held, HeldIn, Mine
  <2>2. HeldOK(c)'
    BY <1>2, <2>1 DEF HeldInv, HeldOK
  <2>3. ASSUME NEW d \in Clients \ {c} PROVE HeldOK(d)'
    BY <1>2, <2>1, HeldStays DEF HeldInv
  <2>4. QED BY <2>2, <2>3 DEF HeldInv
<1>3. 0 \in Nat /\ 0..MaxBill \subseteq Nat
  BY LlmClientAssumption
<1>4. ASSUME NEW c \in Clients, Call(c) \/ LookUp(c) \/ Chat(c) \/ Wake(c) \/ Store(c)
      PROVE  HeldInv'
  <2>1. /\ events' = events /\ flight' = flight
        /\ pc'[c] # "post" /\ pc[c] \notin {"post", "crashed"}
        /\ \A d \in Clients \ {c} : pc'[d] = pc[d]
    BY <1>4 DEF Call, LookUp, Chat, Wake, NextAttempt, Store, Goto, TypeInv, TypeOK
  <2>2. QED BY <1>2, <2>1
<1>5. ASSUME NEW c \in Clients, Answer(c) PROVE HeldInv'
  <2>1. flight' = flight /\ pc[c] = "post"
    BY <1>5 DEF Answer, Unavailable, JsonModeFails, Refused, Answered, Unreadable
  <2>2. pc'[c] # "post" /\ \A d \in Clients \ {c} : pc'[d] = pc[d]
    BY <1>5 DEF Answer, Unavailable, JsonModeFails, Refused, Answered, Unreadable,
                NextAttempt, Continue, Goto, TypeInv, TypeOK
  <2>3. \/ \E bill \in 0..MaxBill : Settle(c, bill)
        \/ Settle(c, 0)
        \/ events' = events /\ pc'[c] = "crashed"
    BY <1>5 DEF Answer, Unavailable, JsonModeFails, Refused, Answered, Unreadable,
                Goto, TypeInv, TypeOK
  <2>4. QED BY <1>1, <1>2, <1>3, <2>1, <2>2, <2>3
<1>6. CASE UNCHANGED vars
  <2>1. \A d \in Clients : Held(d)' = Held(d) /\ pc'[d] = pc[d] /\ flight'[d] = flight[d]
    BY <1>6 DEF vars, Held, Mine
  <2>2. QED BY <2>1, HeldStays DEF HeldInv
<1>7. QED
  BY <1>4, <1>5, <1>6, ReserveKeepsHeld, TickKeepsHeld DEF Next, Advance

\* Every request in flight counts against the limit for a whole window, and
\* nothing else that is not settled does (reserve, settle, _used).
THEOREM RequestsHoldTheirReservations == Spec => []ReservationsMatchRequests
<1>1. Init => HeldInv
  BY LimiterOfClient DEF Init, HeldInv, HeldOK, Held, HeldIn, Mine
<1>2. TypeInv /\ HeldInv => ReservationsMatchRequests
  <2> SUFFICES ASSUME TypeInv, HeldInv, NEW c \in Clients
               PROVE  /\ pc[c] = "post" => flight[c] = Window
                           \/ \E i \in DOMAIN Mine(c) : Mine(c)[i].by = c
                      /\ \A i \in DOMAIN Mine(c) : Mine(c)[i].by = c
                           => pc[c] \in {"post", "crashed"}
    BY DEF ReservationsMatchRequests
  <2>1. DOMAIN Mine(c) = 1..Len(Mine(c))
    BY MineIsEvents DEF TypeInv
  <2>2. HeldOK(c)
    BY DEF HeldInv
  <2>3. QED BY <2>1, <2>2 DEF HeldOK, Held, HeldIn
<1>3. QED BY <1>1, <1>2, InitTypes, StepKeepsTypes, StepKeepsHeld, PTL DEF Spec

-----------------------------------------------------------------------------
(* Sums.                                                                   *)

LEMMA UnitsAre ==
  ASSUME NEW k \in Nat, NEW n \in [1..k -> Int], NEW i, NEW u
  PROVE  <<i, u>> \in Units(n) <=> i \in 1..k /\ u \in 1..n[i]
BY DEF Units

LEMMA UnitsArePairs ==
  ASSUME NEW n, NEW p \in Units(n)
  PROVE  p = <<p[1], p[2]>>
BY DEF Units

LEMMA UnitsAreFinite ==
  ASSUME NEW k \in Nat, NEW n \in [1..k -> Int]
  PROVE  IsFiniteSet(Units(n)) /\ Total(n) \in Nat
<1> DEFINE F(i) == {i} \X (1..n[i])
           S == {F(i) : i \in 1..k}
<1>1. IsFiniteSet(1..k)
  BY FS_Interval
<1> HIDE DEF F
<1>2. IsFiniteSet(S)
  <2> DEFINE g == [i \in 1..k |-> F(i)]
  <2>1. g \in Surjection(1..k, S)
    BY DEF Surjection
  <2>2. QED BY <1>1, <2>1, FS_Surjection
<1>3. \A i \in 1..k : IsFiniteSet(F(i))
  <2> SUFFICES ASSUME NEW i \in 1..k PROVE IsFiniteSet(F(i))
    OBVIOUS
  <2>1. n[i] \in Int
    OBVIOUS
  <2>2. IsFiniteSet(1..n[i])
    BY <2>1, FS_Interval
  <2>3. IsFiniteSet({i})
    BY FS_Singleton
  <2>4. QED BY <2>2, <2>3, FS_Product DEF F
<1>4. \A T \in S : IsFiniteSet(T)
  BY <1>3
<1>5. IsFiniteSet(UNION S)
  BY <1>2, <1>4, FS_UNION
<1>6. Units(n) = UNION S
  BY DEF Units, F
<1>7. QED BY <1>5, <1>6, FS_CardinalityType DEF Total

\* A sum does not grow when its terms do not.
LEMMA TotalMonotone ==
  ASSUME NEW k \in Nat, NEW n \in [1..k -> Int], NEW m \in [1..k -> Int],
         \A i \in 1..k : m[i] <= n[i]
  PROVE  Total(m) <= Total(n)
<1>1. Units(m) \subseteq Units(n)
  <2> SUFFICES ASSUME NEW p \in Units(m) PROVE p \in Units(n)
    OBVIOUS
  <2>1. p = <<p[1], p[2]>>
    BY UnitsArePairs
  <2>2. p[1] \in 1..k /\ p[2] \in 1..m[p[1]]
    BY <2>1, UnitsAre
  <2>3. p[2] \in 1..n[p[1]]
    BY <2>2
  <2>4. QED BY <2>1, <2>2, <2>3, UnitsAre
<1>2. QED BY <1>1, UnitsAreFinite, FS_Subset DEF Total

\* A sum without its first terms is no larger.
LEMMA TotalOfRest ==
  ASSUME NEW k \in Nat, NEW n \in [1..k -> Int], NEW j \in 0..k,
         NEW m \in [1..(k - j) -> Int], \A i \in 1..(k - j) : m[i] = n[i + j]
  PROVE  Total(m) <= Total(n)
<1> DEFINE f == [p \in Units(m) |-> <<p[1] + j, p[2]>>]
<1>1. \A p \in Units(m) : p = <<p[1], p[2]>> /\ p[1] \in 1..(k - j) /\ p[2] \in 1..m[p[1]]
  <2> SUFFICES ASSUME NEW p \in Units(m)
               PROVE  p = <<p[1], p[2]>> /\ p[1] \in 1..(k - j) /\ p[2] \in 1..m[p[1]]
    OBVIOUS
  <2>1. p = <<p[1], p[2]>>
    BY UnitsArePairs
  <2>2. k - j \in Nat
    OBVIOUS
  <2>3. QED BY <2>1, <2>2, UnitsAre
<1>2. \A p \in Units(m) : <<p[1] + j, p[2]>> \in Units(n)
  <2> SUFFICES ASSUME NEW p \in Units(m) PROVE <<p[1] + j, p[2]>> \in Units(n)
    OBVIOUS
  <2>1. p[1] \in 1..(k - j) /\ p[2] \in 1..m[p[1]]
    BY <1>1
  <2>2. p[1] + j \in 1..k /\ m[p[1]] = n[p[1] + j]
    BY <2>1
  <2>3. p[2] \in 1..n[p[1] + j]
    BY <2>1, <2>2
  <2>4. QED BY <2>2, <2>3, UnitsAre
<1>3. \A p, q \in Units(m) : <<p[1] + j, p[2]>> = <<q[1] + j, q[2]>> => p = q
  <2> SUFFICES ASSUME NEW p \in Units(m), NEW q \in Units(m),
                      <<p[1] + j, p[2]>> = <<q[1] + j, q[2]>>
               PROVE  p = q
    OBVIOUS
  <2>1. p[1] \in Int /\ q[1] \in Int /\ p = <<p[1], p[2]>> /\ q = <<q[1], q[2]>>
    BY <1>1
  <2>2. p[1] + j = q[1] + j /\ p[2] = q[2]
    OBVIOUS
  <2>3. p[1] = q[1]
    BY <2>1, <2>2
  <2>4. QED BY <2>1, <2>2, <2>3
<1>4. f \in Injection(Units(m), Units(n))
  BY <1>2, <1>3 DEF Injection, IsInjective
<1>5. IsFiniteSet(Units(n))
  BY UnitsAreFinite
<1>6. Cardinality(Units(m)) <= Cardinality(Units(n))
  BY <1>4, <1>5, FS_Injection
<1>7. QED BY <1>6 DEF Total

\* One more term adds no more than itself.
LEMMA TotalOfOneMore ==
  ASSUME NEW k \in Nat, NEW n \in [1..k -> Int], NEW m \in [1..(k + 1) -> Int],
         \A i \in 1..k : m[i] = n[i], m[k + 1] \in Nat
  PROVE  Total(m) <= Total(n) + m[k + 1]
<1> DEFINE T == {k + 1} \X (1..m[k + 1])
<1>1. Units(m) \subseteq Units(n) \cup T
  <2> SUFFICES ASSUME NEW p \in Units(m) PROVE p \in Units(n) \cup T
    OBVIOUS
  <2>1. p = <<p[1], p[2]>>
    BY UnitsArePairs
  <2>2. p[1] \in 1..(k + 1) /\ p[2] \in 1..m[p[1]]
    BY <2>1, UnitsAre
  <2>3. CASE p[1] = k + 1
    BY <2>1, <2>2, <2>3
  <2>4. CASE p[1] # k + 1
    <3>1. p[1] \in 1..k /\ p[2] \in 1..n[p[1]]
      BY <2>2, <2>4
    <3>2. <<p[1], p[2]>> \in Units(n)
      BY <3>1, UnitsAre
    <3>3. QED BY <2>1, <3>2
  <2>5. QED BY <2>3, <2>4
<1>2. IsFiniteSet(T) /\ Cardinality(T) = m[k + 1]
  <2>1. IsFiniteSet({k + 1}) /\ Cardinality({k + 1}) = 1
    BY FS_Singleton
  <2>2. IsFiniteSet(1..m[k + 1]) /\ Cardinality(1..m[k + 1]) = m[k + 1]
    BY FS_Interval
  <2>3. IsFiniteSet(T) /\ Cardinality(T) = 1 * m[k + 1]
    BY <2>1, <2>2, FS_Product
  <2>4. QED BY <2>3
<1> HIDE DEF T
<1>3. IsFiniteSet(Units(n)) /\ Cardinality(Units(n)) \in Nat
  BY UnitsAreFinite DEF Total
<1>4. /\ IsFiniteSet(Units(n) \cup T)
      /\ Cardinality(Units(n) \cup T) =
           Cardinality(Units(n)) + Cardinality(T) - Cardinality(Units(n) \cap T)
  BY <1>2, <1>3, FS_Union
<1>5. Cardinality(Units(n) \cap T) \in Nat
  BY <1>3, FS_Intersection, FS_CardinalityType
<1>6. Cardinality(Units(m)) <= Cardinality(Units(n) \cup T)
  BY <1>1, <1>4, FS_Subset
<1>7. Cardinality(Units(m)) \in Nat /\ Cardinality(Units(n) \cup T) \in Nat
  BY <1>1, <1>4, FS_Subset, FS_CardinalityType
<1>8. QED BY <1>2, <1>3, <1>4, <1>5, <1>6, <1>7 DEF Total

-----------------------------------------------------------------------------
(* The limit.                                                              *)

\* A reservation holds all its tokens; only a bill goes beyond one, and by
\* no more than itself.
Honest(e) == e.over <= e.tokens /\ (e.by # Nobody => e.over = 0)

WindowInv ==
  /\ WindowWithinLimit
  /\ \A l \in Limiters : \A i \in 1..Len(events[l]) : Honest(events[l][i])

LEMMA SharesAreNumbers ==
  ASSUME NEW s \in Seq(Event)
  PROVE  /\ Shares(s) \in [1..Len(s) -> Int]
         /\ \A i \in 1..Len(s) : Shares(s)[i] <= s[i].tokens
         /\ [i \in DOMAIN s |-> s[i].tokens] \in [1..Len(s) -> Int]
<1>1. DOMAIN s = 1..Len(s) /\ \A i \in 1..Len(s) : s[i] \in Event
  OBVIOUS
<1>2. \A e \in Event : e.tokens \in Nat /\ Share(e) \in Int /\ Share(e) <= e.tokens
  BY DEF Event, Share
<1>3. QED BY <1>1, <1>2 DEF Shares

\* Dropping the head of the deque and adding a reservation that fits.
LEMMA ReserveKeepsWindow ==
  ASSUME TypeInv, WindowInv, NEW c \in Clients, Reserve(c)
  PROVE  WindowInv'
<1> DEFINE l == LimiterOf[c]
           entry == Entry(c, 0, Reserved(c), 0)
           s == Mine(c)
<1>1. l \in Limiters /\ s \in Seq(Event) /\ s = events[l] /\ Len(s) \in Nat
  BY LimiterOfClient, MineIsEvents DEF TypeInv, Mine
<1>2. PICK k \in 0..Len(s) :
        LET live == SubSeq(s, k + 1, Len(s))
        IN IF Fits(c, live)
           THEN events' = [events EXCEPT ![l] = Append(live, entry)]
           ELSE events' = [events EXCEPT ![l] = live]
  BY DEF Reserve
<1> DEFINE live == SubSeq(s, k + 1, Len(s))
<1>3. live \in Seq(Event) /\ Len(live) = Len(s) - k /\ \A i \in 1..Len(live) : live[i] = s[i + k]
  BY <1>1, SubSeqProperties
<1>4. \A i \in 1..Len(live) : Honest(live[i])
  <2>1. \A i \in 1..Len(live) : i + k \in 1..Len(s)
    BY <1>1, <1>3
  <2>2. QED BY <1>1, <1>3, <2>1 DEF WindowInv
<1>5. \A m \in Limiters \ {l} : events'[m] = events[m]
  BY <1>2 DEF TypeInv, TypeOK
<1>6. Total(Shares(s)) <= Limit
  BY <1>1 DEF WindowInv, WindowWithinLimit
<1>7. Reserved(c) \in Nat /\ 0 \in 0..Window /\ Limit \in Nat
  BY ReservedIsNat, LlmClientAssumption DEF TypeInv
<1>8. entry \in Event /\ entry.tokens = Reserved(c) /\ entry.over = 0 /\ Share(entry) \in Nat
      /\ Share(entry) <= Reserved(c)
  <2>1. entry \in Event
    BY <1>7, EntryIsEvent
  <2>2. QED BY <1>7, <2>1 DEF Entry, Share
<1> HIDE DEF live, entry
<1>9. CASE Fits(c, live)
  <2> DEFINE t == Append(live, entry)
  <2>1. events' = [events EXCEPT ![l] = t]
    BY <1>2, <1>9 DEF live, entry
  <2>2. events'[l] = t
    BY <1>1, <2>1 DEF TypeInv, TypeOK
  <2>3. /\ t \in Seq(Event) /\ Len(live) \in Nat /\ Len(t) = Len(live) + 1
        /\ \A i \in 1..Len(live) : t[i] = live[i]
        /\ t[Len(live) + 1] = entry
    BY <1>3, <1>8
  <2> HIDE DEF t
  <2>4. /\ Shares(live) \in [1..Len(live) -> Int] /\ Shares(t) \in [1..(Len(live) + 1) -> Int]
        /\ \A i \in 1..Len(live) : Shares(t)[i] = Shares(live)[i]
        /\ Shares(t)[Len(live) + 1] = Share(entry)
    <3>1. DOMAIN t = 1..(Len(live) + 1) /\ DOMAIN live = 1..Len(live)
      BY <1>3, <2>3
    <3>2. Shares(live) \in [1..Len(live) -> Int] /\ Shares(t) \in [1..(Len(live) + 1) -> Int]
      BY <1>3, <2>3, SharesAreNumbers
    <3>3. Len(live) + 1 \in 1..(Len(live) + 1) /\ 1..Len(live) \subseteq 1..(Len(live) + 1)
      BY <2>3
    <3>4. QED BY <2>3, <3>1, <3>2, <3>3 DEF Shares
  <2>5. Total(Shares(t)) <= Total(Shares(live)) + Share(entry)
    BY <1>8, <2>3, <2>4, TotalOfOneMore
  <2>6. Total(Shares(live)) <= Tokens(live)
    BY <1>3, <2>3, <2>4, SharesAreNumbers, TotalMonotone DEF Tokens
  <2>7. Total(Shares(live)) \in Nat /\ Tokens(live) \in Nat /\ Total(Shares(t)) \in Nat
    <3>1. Len(live) + 1 \in Nat
      BY <2>3
    <3>2. Total(Shares(live)) \in Nat /\ Total(Shares(t)) \in Nat
      BY <2>3, <2>4, <3>1, UnitsAreFinite
    <3>3. Tokens(live) \in Nat
      BY <1>3, <2>3, SharesAreNumbers, UnitsAreFinite DEF Tokens
    <3>4. QED BY <3>2, <3>3
  <2>8. Tokens(live) + Reserved(c) <= Limit
    BY <1>9 DEF Fits
  <2>9. Total(Shares(t)) <= Limit
    BY <1>7, <1>8, <2>5, <2>6, <2>7, <2>8
  <2>10. \A i \in 1..Len(t) : Honest(t[i])
    <3>1. Honest(entry)
      BY <1>7, <1>8 DEF Honest
    <3>2. QED BY <1>4, <2>3, <3>1
  <2>11. QED BY <1>5, <2>2, <2>9, <2>10 DEF WindowInv, WindowWithinLimit
<1>10. CASE ~Fits(c, live)
  <2>1. events' = [events EXCEPT ![l] = live]
    BY <1>2, <1>10 DEF live
  <2>2. events'[l] = live
    BY <1>1, <2>1 DEF TypeInv, TypeOK
  <2>3. /\ Shares(s) \in [1..Len(s) -> Int] /\ Shares(live) \in [1..(Len(s) - k) -> Int]
        /\ \A i \in 1..(Len(s) - k) : Shares(live)[i] = Shares(s)[i + k]
    <3>1. DOMAIN live = 1..(Len(s) - k) /\ DOMAIN s = 1..Len(s)
      BY <1>1, <1>3
    <3>2. \A i \in 1..(Len(s) - k) : i + k \in 1..Len(s)
      BY <1>1
    <3>3. Shares(s) \in [1..Len(s) -> Int] /\ Shares(live) \in [1..(Len(s) - k) -> Int]
      BY <1>1, <1>3, SharesAreNumbers
    <3>4. QED BY <1>3, <3>1, <3>2, <3>3 DEF Shares
  <2>4. Total(Shares(live)) <= Total(Shares(s))
    BY <1>1, <2>3, TotalOfRest
  <2>5. Total(Shares(live)) \in Nat /\ Total(Shares(s)) \in Nat
    <3>1. Len(s) - k \in Nat
      BY <1>1
    <3>2. QED BY <1>1, <2>3, <3>1, UnitsAreFinite
  <2>6. Total(Shares(live)) <= Limit
    BY <1>6, <1>7, <2>4, <2>5
  <2>7. QED BY <1>4, <1>5, <2>2, <2>6 DEF WindowInv, WindowWithinLimit
<1>11. QED BY <1>9, <1>10

\* A settled reservation takes no more than before, and a bill without one
\* takes nothing.
LEMMA EntryIs ==
  ASSUME NEW by, NEW age, NEW tokens, NEW over
  PROVE  LET e == Entry(by, age, tokens, over)
         IN  e.by = by /\ e.age = age /\ e.tokens = tokens /\ e.over = over
BY DEF Entry

LEMMA SettleKeepsWindow ==
  ASSUME TypeInv, WindowInv, NEW c \in Clients, NEW bill \in Nat, Settle(c, bill)
  PROVE  WindowInv'
<1> DEFINE l == LimiterOf[c]
           s == events[l]
           billed(e) == Entry(Nobody, e.age, bill, Excess(bill, e.tokens))
           paid == [i \in 1..Len(s) |-> IF s[i].by = c THEN billed(s[i]) ELSE s[i]]
           last == Entry(Nobody, 0, bill, bill)
<1>1. l \in Limiters /\ s \in Seq(Event) /\ Len(s) \in Nat /\ DOMAIN s = 1..Len(s)
      /\ \A i \in 1..Len(s) : s[i] \in Event
  BY LimiterOfClient DEF TypeInv, TypeOK
<1>2. events' = [events EXCEPT ![l] =
        IF \E i \in 1..Len(s) : s[i].by = c THEN paid ELSE Append(s, last)]
  BY DEF Settle
<1>3. \A m \in Limiters \ {l} : events'[m] = events[m]
  BY <1>2 DEF TypeInv, TypeOK
<1>4. Total(Shares(s)) <= Limit /\ \A i \in 1..Len(s) : Honest(s[i])
  BY <1>1 DEF WindowInv, WindowWithinLimit
<1>5. Nobody \notin Clients /\ Limit \in Nat /\ Window \in Nat
  BY LlmClientAssumption
<1>6. Shares(s) \in [1..Len(s) -> Int] /\ Total(Shares(s)) \in Nat
  BY <1>1, SharesAreNumbers, UnitsAreFinite
<1>7. CASE \E i \in 1..Len(s) : s[i].by = c
  <2>1. events'[l] = paid
    BY <1>1, <1>2, <1>7 DEF TypeInv, TypeOK
  <2>2. ASSUME NEW i \in 1..Len(s) PROVE Share(paid[i]) \in Int /\ Share(paid[i]) <= Share(s[i])
    <3>1. s[i].tokens \in Nat /\ s[i].over \in Nat /\ s[i].age \in 0..Window
      BY <1>1 DEF Event
    <3>2. CASE s[i].by = c
      <4>1. s[i].over = 0
        BY <1>4, <1>5, <3>2 DEF Honest
      <4>2. paid[i] = Entry(Nobody, s[i].age, bill, Excess(bill, s[i].tokens))
        BY <3>2
      <4>3. /\ paid[i].age = s[i].age /\ paid[i].tokens = bill
            /\ paid[i].over = Excess(bill, s[i].tokens)
        <5> HIDE DEF paid, s
        <5>1. QED BY <4>2, EntryIs
      <4> HIDE DEF paid
      <4>4. bill - Excess(bill, s[i].tokens) <= s[i].tokens - s[i].over
        BY <3>1, <4>1 DEF Excess
      <4>5. bill - Excess(bill, s[i].tokens) \in Int /\ s[i].tokens - s[i].over \in Int
        BY <3>1 DEF Excess
      <4>6. QED BY <4>3, <4>4, <4>5 DEF Share
    <3>3. CASE s[i].by # c
      <4>1. paid[i] = s[i]
        BY <3>3
      <4> HIDE DEF paid, s
      <4>2. Share(s[i]) \in Int
        BY <3>1 DEF Share
      <4>3. QED BY <4>1, <4>2
    <3>4. QED BY <3>2, <3>3
  <2>3. ASSUME NEW i \in 1..Len(s) PROVE Honest(paid[i])
    <3>1. CASE s[i].by = c
      <4>1. paid[i] = Entry(Nobody, s[i].age, bill, Excess(bill, s[i].tokens))
        BY <3>1
      <4>2. paid[i].by = Nobody /\ paid[i].tokens = bill /\ paid[i].over = Excess(bill, s[i].tokens)
        <5> HIDE DEF paid, s
        <5>1. QED BY <4>1, EntryIs
      <4>3. s[i].tokens \in Nat
        BY <1>1 DEF Event
      <4>4. Excess(bill, s[i].tokens) <= bill
        BY <4>3 DEF Excess
      <4>5. QED BY <4>2, <4>4 DEF Honest
    <3>2. CASE s[i].by # c
      <4>1. paid[i] = s[i]
        BY <3>2
      <4>2. QED BY <1>4, <4>1
    <3>3. QED BY <3>1, <3>2
  <2>4. Len(paid) = Len(s) /\ DOMAIN paid = 1..Len(s)
    BY <1>1
  <2> HIDE DEF paid
  <2>5. Shares(paid) \in [1..Len(s) -> Int] /\ \A i \in 1..Len(s) : Shares(paid)[i] <= Shares(s)[i]
    BY <1>1, <2>2, <2>4 DEF Shares
  <2>6. Total(Shares(paid)) <= Total(Shares(s)) /\ Total(Shares(paid)) \in Nat
    BY <1>1, <1>6, <2>5, TotalMonotone, UnitsAreFinite
  <2>7. Total(Shares(paid)) <= Limit
    BY <1>4, <1>5, <1>6, <2>6
  <2>8. QED BY <1>3, <2>1, <2>3, <2>4, <2>7 DEF WindowInv, WindowWithinLimit
<1>8. CASE ~ \E i \in 1..Len(s) : s[i].by = c
  <2> DEFINE t == Append(s, last)
  <2>1. events'[l] = t
    BY <1>1, <1>2, <1>8 DEF TypeInv, TypeOK
  <2>2. last.by = Nobody /\ Share(last) = 0 /\ last.over <= last.tokens
    BY DEF Entry, Share
  <2> HIDE DEF last, s
  <2>3. /\ Len(t) = Len(s) + 1 /\ DOMAIN t = 1..(Len(s) + 1)
        /\ \A i \in 1..Len(s) : t[i] = s[i]
        /\ t[Len(s) + 1] = last
    BY <1>1
  <2> HIDE DEF t
  <2>4. /\ Shares(t) \in [1..(Len(s) + 1) -> Int]
        /\ \A i \in 1..Len(s) : Shares(t)[i] = Shares(s)[i]
        /\ Shares(t)[Len(s) + 1] = 0
    <3>1. Shares(t) = [i \in 1..(Len(s) + 1) |-> Share(t[i])]
      BY <2>3 DEF Shares
    <3>2. \A i \in 1..Len(s) : Share(s[i]) \in Int /\ Shares(s)[i] = Share(s[i])
      BY <1>1, <1>6 DEF Shares
    <3>3. \A i \in 1..(Len(s) + 1) : Share(t[i]) \in Int
      <4> SUFFICES ASSUME NEW i \in 1..(Len(s) + 1) PROVE Share(t[i]) \in Int
        OBVIOUS
      <4>1. CASE i = Len(s) + 1
        BY <2>2, <2>3, <4>1
      <4>2. CASE i # Len(s) + 1
        <5>1. i \in 1..Len(s)
          BY <1>1, <4>2
        <5>2. QED BY <2>3, <3>2, <5>1
      <4>3. QED BY <4>1, <4>2
    <3>4. QED BY <1>1, <2>2, <2>3, <3>1, <3>2, <3>3
  <2>5. Total(Shares(t)) <= Total(Shares(s)) + 0
    <3>1. 0 \in Nat
      OBVIOUS
    <3>2. QED BY <1>1, <1>6, <2>4, <3>1, TotalOfOneMore
  <2>6. Total(Shares(t)) \in Nat
    <3>1. Len(s) + 1 \in Nat
      BY <1>1
    <3>2. QED BY <2>4, <3>1, UnitsAreFinite
  <2>7. Total(Shares(t)) <= Limit
    BY <1>4, <1>5, <1>6, <2>5, <2>6
  <2>8. \A i \in 1..Len(t) : Honest(t[i])
    <3>1. Honest(last)
      BY <2>2 DEF Honest
    <3>2. QED BY <1>4, <2>3, <3>1
  <2>9. QED BY <1>3, <2>1, <2>7, <2>8 DEF WindowInv, WindowWithinLimit
<1>9. QED BY <1>7, <1>8

LEMMA TickKeepsWindow ==
  ASSUME TypeInv, WindowInv, Tick
  PROVE  WindowInv'
<1> SUFFICES ASSUME NEW l \in Limiters
             PROVE  /\ Total(Shares(events'[l])) <= Limit
                    /\ \A i \in 1..Len(events'[l]) : Honest(events'[l][i])
  BY DEF WindowInv, WindowWithinLimit
<1> DEFINE s == events[l]
           t == [i \in 1..Len(s) |-> Aged(s[i])]
<1>1. s \in Seq(Event) /\ Len(s) \in Nat /\ DOMAIN s = 1..Len(s)
  BY DEF TypeInv, TypeOK
<1>2. events'[l] = t
  BY DEF Tick
<1>3. \A i \in 1..Len(s) : /\ t[i].by = s[i].by /\ t[i].tokens = s[i].tokens
                           /\ t[i].over = s[i].over /\ t[i].age = Older(s[i].age)
  BY DEF Aged, Entry
<1>4. Len(t) = Len(s) /\ DOMAIN t = 1..Len(s)
  BY <1>1
<1>5. Total(Shares(s)) <= Limit /\ \A i \in 1..Len(s) : Honest(s[i])
  BY DEF WindowInv, WindowWithinLimit
<1> HIDE DEF t, s
<1>6. ASSUME NEW i \in 1..Len(s) PROVE Share(t[i]) \in Int /\ Share(t[i]) <= Share(s[i])
  <2>1. s[i].tokens \in Nat /\ s[i].over \in Nat /\ s[i].age \in 0..Window
    <3>1. s[i] \in Event
      BY <1>1
    <3>2. QED BY <3>1 DEF Event
  <2>2. Older(Window) = Window
    BY LlmClientAssumption DEF Older
  <2>3. CASE s[i].age = Window
    BY <1>3, <2>2, <2>3 DEF Share
  <2>4. CASE s[i].age # Window
    <3>1. s[i].over <= s[i].tokens
      BY <1>5 DEF Honest
    <3>2. QED BY <1>3, <2>1, <2>4, <3>1 DEF Share
  <2>5. QED BY <2>3, <2>4
<1>7. Shares(t) \in [1..Len(s) -> Int] /\ \A i \in 1..Len(s) : Shares(t)[i] <= Shares(s)[i]
  BY <1>1, <1>4, <1>6 DEF Shares
<1>8. Shares(s) \in [1..Len(s) -> Int]
  BY <1>1, SharesAreNumbers
<1>9. /\ Total(Shares(t)) <= Total(Shares(s))
      /\ Total(Shares(t)) \in Nat /\ Total(Shares(s)) \in Nat
  BY <1>1, <1>7, <1>8, TotalMonotone, UnitsAreFinite
<1>10. Limit \in Nat
  BY LlmClientAssumption
<1>11. Total(Shares(t)) <= Limit
  BY <1>5, <1>9, <1>10
<1>12. \A i \in 1..Len(s) : Honest(t[i])
  BY <1>3, <1>5 DEF Honest
<1>13. QED BY <1>2, <1>4, <1>11, <1>12

LEMMA StepKeepsWindow == TypeInv /\ WindowInv /\ [Next]_vars => WindowInv'
<1> SUFFICES ASSUME TypeInv, WindowInv, [Next]_vars PROVE WindowInv'
  OBVIOUS
<1>1. 0 \in Nat /\ 0..MaxBill \subseteq Nat
  BY LlmClientAssumption
<1>2. CASE UNCHANGED events
  BY <1>2 DEF WindowInv, WindowWithinLimit
<1>3. ASSUME NEW c \in Clients, Answer(c) PROVE WindowInv'
  <2>1. (\E bill \in Nat : Settle(c, bill)) \/ UNCHANGED events
    BY <1>1, <1>3 DEF Answer, Unavailable, JsonModeFails, Refused, Answered, Unreadable
  <2>2. QED BY <1>2, <2>1, SettleKeepsWindow
<1>4. ASSUME NEW c \in Clients, Call(c) \/ LookUp(c) \/ Chat(c) \/ Wake(c) \/ Store(c)
      PROVE  UNCHANGED events
  BY <1>4 DEF Call, LookUp, Chat, Wake, Store
<1>5. QED
  BY <1>2, <1>3, <1>4, ReserveKeepsWindow, TickKeepsWindow DEF Next, Advance, vars

\* What the last minute takes of the limit is within it, for any limit,
\* estimates and bills (TokenLimiter.reserve, settle and _used).
THEOREM LimitIsKept == Spec => []WindowWithinLimit
<1>1. Init => WindowInv
  <2> SUFFICES ASSUME Init, NEW l \in Limiters
               PROVE  Total(Shares(events[l])) <= Limit /\ Len(events[l]) = 0
    BY DEF WindowInv, WindowWithinLimit
  <2>1. events[l] = <<>>
    BY DEF Init
  <2>2. Units(Shares(events[l])) = {}
    BY <2>1 DEF Units, Shares
  <2>3. Total(Shares(events[l])) = 0
    BY <2>2, FS_EmptySet DEF Total
  <2>4. QED BY <2>1, <2>3, LlmClientAssumption
<1>2. WindowInv => WindowWithinLimit
  BY DEF WindowInv
<1>3. QED BY <1>1, <1>2, InitTypes, StepKeepsTypes, StepKeepsWindow, PTL DEF Spec
=============================================================================
