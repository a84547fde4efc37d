---------------------------- MODULE HandlerProofs ----------------------------
(***************************************************************************)
(* Proofs about Handler, for any number of concurrent queries, any names,  *)
(* answers and configurations, and reloads between any two steps.  The     *)
(* inductive invariant is Inv below: what each query in progress has       *)
(* established so far, what may be in the cache, and what was replied.     *)
(* Then those of UpstreamQuery, the step of Handler that prepares what is  *)
(* forwarded, with the invariant PrepareInv.                               *)
(***************************************************************************)
EXTENDS Handler, UpstreamQuery, Lemmas, SequenceTheorems, TLAPS

-----------------------------------------------------------------------------
Domains ==
    /\ DOMAIN pc = Clients /\ DOMAIN req = Clients /\ DOMAIN resp = Clients
    /\ DOMAIN todo = Clients /\ DOMAIN reply = Clients /\ DOMAIN clear = Clients
    /\ cfg \in Configs

(* The upstream answer of c is to its question, each alias was unblocked   *)
(* at some moment or is still to be checked, and once the answer is on its *)
(* way to the cache, none is left and it is no rebinding.                  *)
Vetting(c) ==
    /\ resp[c].key = Key(req[c])
    /\ resp[c].answer \in Answers
    /\ todo[c] \in Seq(Names)
    /\ cfg.uncloak => \A n \in Aliases(resp[c].answer) :
          n \in clear[c] \/ \E j \in 1..Len(todo[c]) : todo[c][j] = n
    /\ pc[c] = "save" => todo[c] = << >> /\ ~Rebinding(c)

Progress(c) ==
    pc[c] # "idle" =>
        /\ req[c] \in Questions
        /\ Names \ Blocked(rules) \subseteq clear[c]
        /\ pc[c] # "filter" => req[c].name \in clear[c]
        /\ pc[c] \in {"vet", "save"} => Vetting(c)

(* The cache holds answers under the question they answer, and with        *)
(* rebinding protection none that FilterDNSRebinding refuses.              *)
StoreClean ==
    \A k \in DOMAIN store :
        /\ store[k].key = k
        /\ cfg.rebind /\ store[k].answer.private => k[1] \in LocalNames

ReplyOK(c) ==
    /\ FromUpstream(reply[c]) =>
          /\ req[c].name \in clear[c]
          /\ reply[c].kind = "forwarded" /\ cfg.uncloak =>
                Aliases(reply[c].answer) \subseteq clear[c]
          /\ cfg.rebind /\ reply[c].answer.private => req[c].name \in LocalNames
          /\ reply[c].key = Key(req[c])
    /\ reply[c] # NoReply => reply[c].id = c

Inv ==
    /\ Domains
    /\ StoreClean
    /\ \A c \in Clients : Progress(c) /\ ReplyOK(c)

LEMMA InvInit == Init => Inv
<1> SUFFICES ASSUME Init PROVE Inv
  OBVIOUS
<1>1. Domains
  BY DEF Init, Domains
<1>2. StoreClean
  BY DEF Init, StoreClean
<1>3. ASSUME NEW c \in Clients PROVE Progress(c) /\ ReplyOK(c)
  BY DEF Init, Progress, ReplyOK, FromUpstream, NoReply
<1> QED
  BY <1>1, <1>2, <1>3 DEF Inv

-----------------------------------------------------------------------------
(* What an action on another client leaves alone. *)
LEMMA ProgressFrame ==
    ASSUME NEW c, Progress(c), UNCHANGED <<cfg, rules, pc[c], req[c], resp[c], todo[c], clear[c]>>
    PROVE  Progress(c)'
    BY DEF Progress, Vetting, Rebinding, Aliases, Key, Blocked

LEMMA ReplyFrame ==
    ASSUME NEW c, ReplyOK(c), UNCHANGED <<cfg, req[c], reply[c], clear[c]>>
    PROVE  ReplyOK(c)'
    BY DEF ReplyOK, FromUpstream, Aliases, Key

LEMMA StoreFrame ==
    ASSUME StoreClean, UNCHANGED <<cfg, store>>
    PROVE  StoreClean'
    BY DEF StoreClean

(* The end of a query: of Inv only the reply of c is left to show. *)
LEMMA FinishStep ==
    ASSUME Inv, NEW c \in Clients, NEW r, Finish(c, r),
           UNCHANGED <<cfg, rules, req, clear>>, StoreClean', ReplyOK(c)'
    PROVE  Inv'
<1>1. Domains'
  BY DEF Inv, Domains, Finish
<1>2. pc'[c] = "idle"
  BY DEF Inv, Domains, Finish
<1>3. ASSUME NEW d \in Clients, d # c PROVE Progress(d)' /\ ReplyOK(d)'
  <2>1. UNCHANGED <<pc[d], resp[d], todo[d], reply[d], req[d], clear[d]>>
    BY <1>3 DEF Inv, Domains, Finish
  <2> QED
    BY <2>1, ProgressFrame, ReplyFrame DEF Inv
<1>4. Progress(c)'
  BY <1>2 DEF Progress
<1> QED
  BY <1>1, <1>3, <1>4 DEF Inv

(* A step of c that writes no reply and does not touch the cache. *)
LEMMA InnerStep ==
    ASSUME Inv, NEW c \in Clients,
           UNCHANGED <<cfg, rules, store, req, reply, clear>>,
           DOMAIN pc' = Clients, DOMAIN resp' = Clients, DOMAIN todo' = Clients,
           \A d \in Clients \ {c} : UNCHANGED <<pc[d], resp[d], todo[d]>>,
           Progress(c)'
    PROVE  Inv'
<1>1. Domains'
  BY DEF Inv, Domains
<1>2. StoreClean'
  BY StoreFrame DEF Inv
<1>3. \A d \in Clients : ReplyOK(d)'
  BY ReplyFrame DEF Inv
<1>4. ASSUME NEW d \in Clients, d # c PROVE Progress(d)'
  BY <1>4, ProgressFrame DEF Inv
<1> QED
  BY <1>1, <1>2, <1>3, <1>4 DEF Inv

LEMMA ReceiveMalformedStep ==
    ASSUME Inv, NEW c \in Clients, ReceiveMalformed(c)
    PROVE  Inv'
<1>1. Domains'
  BY DEF Inv, Domains, ReceiveMalformed
<1>2. StoreClean'
  BY StoreFrame DEF Inv, ReceiveMalformed
<1>3. ASSUME NEW d \in Clients PROVE Progress(d)'
  BY ProgressFrame DEF Inv, ReceiveMalformed
<1>4. reply'[c] = [kind |-> "formerr", id |-> c]
  BY DEF Inv, Domains, ReceiveMalformed
<1>5. ReplyOK(c)'
  BY <1>4 DEF ReplyOK, FromUpstream
<1>6. ASSUME NEW d \in Clients, d # c PROVE ReplyOK(d)'
  BY <1>6, ReplyFrame DEF Inv, Domains, ReceiveMalformed
<1> QED
  BY <1>1, <1>2, <1>3, <1>5, <1>6 DEF Inv

LEMMA ReceiveStep ==
    ASSUME Inv, NEW c \in Clients, NEW q \in Questions, Receive(c, q)
    PROVE  Inv'
<1>1. Domains'
  BY DEF Inv, Domains, Receive
<1>2. StoreClean'
  BY StoreFrame DEF Inv, Receive
<1>3. /\ pc'[c] = "filter" /\ req'[c] = q /\ reply'[c] = NoReply
      /\ clear'[c] = Names \ Blocked(rules) /\ rules' = rules
  BY DEF Inv, Domains, Receive
<1>4. Progress(c)'
  BY <1>3 DEF Progress, Blocked
<1>5. ReplyOK(c)'
  BY <1>3 DEF ReplyOK, FromUpstream, NoReply
<1>6. ASSUME NEW d \in Clients, d # c PROVE Progress(d)' /\ ReplyOK(d)'
  <2>1. /\ UNCHANGED <<cfg, rules, pc[d], req[d], resp[d], todo[d], clear[d]>>
        /\ UNCHANGED <<cfg, req[d], reply[d], clear[d]>>
    BY <1>6 DEF Inv, Domains, Receive
  <2> QED
    BY <2>1, ProgressFrame, ReplyFrame DEF Inv
<1> QED
  BY <1>1, <1>2, <1>4, <1>5, <1>6 DEF Inv

(* A sinkhole or an error is no answer from upstream, and carries the id. *)
LEMMA RefusalStep ==
    ASSUME Inv, NEW c \in Clients, NEW r, Finish(c, r), UNCHANGED <<cfg, rules, store, req, clear>>,
           r.kind \in {"blocked", "servfail"}, r.id = c
    PROVE  Inv'
<1>1. reply'[c] = r
  BY DEF Inv, Domains, Finish
<1>2. ReplyOK(c)'
  BY <1>1 DEF ReplyOK, FromUpstream
<1>3. StoreClean'
  BY StoreFrame DEF Inv
<1> QED
  BY <1>2, <1>3, FinishStep

LEMMA SinkholeFacts ==
    ASSUME NEW c
    PROVE  Sinkhole(c).kind = "blocked" /\ Sinkhole(c).id = c
    BY DEF Sinkhole

LEMMA FilterPassesStep ==
    ASSUME Inv, NEW c \in Clients, FilterPasses(c)
    PROVE  Inv'
<1>1. /\ pc[c] = "filter" /\ pc'[c] = "cache" /\ req[c].name \notin Blocked(rules)
      /\ UNCHANGED <<rules, req, clear>>
  BY DEF Inv, Domains, FilterPasses
<1>2. req[c] \in Questions /\ Names \ Blocked(rules) \subseteq clear[c]
  BY <1>1 DEF Inv, Progress
<1>3. req[c].name \in clear[c]
  BY <1>1, <1>2 DEF Questions
<1>4. Progress(c)'
  BY <1>1, <1>2, <1>3 DEF Progress, Blocked
<1> QED
  BY <1>4, InnerStep DEF FilterPasses, Inv, Domains

LEMMA CacheHitStep ==
    ASSUME Inv, NEW c \in Clients, CacheHit(c)
    PROVE  Inv'
<1> DEFINE m == store[Key(req[c])]
           r == Message("cache_hit", c, m)
<1>1. /\ pc[c] = "cache" /\ Key(req[c]) \in DOMAIN store /\ Finish(c, r)
      /\ UNCHANGED <<cfg, rules, store, req, clear>>
  BY DEF CacheHit
<1>2. reply'[c] = r
  BY <1>1 DEF Inv, Domains, Finish
<1>3. /\ r.kind = "cache_hit" /\ r.id = c /\ r.key = m.key /\ r.answer = m.answer
  BY DEF Message
<1>4. m.key = Key(req[c]) /\ (cfg.rebind /\ m.answer.private => Key(req[c])[1] \in LocalNames)
  BY <1>1 DEF Inv, StoreClean
<1>5. Key(req[c])[1] = req[c].name
  BY DEF Key
<1>6. req[c].name \in clear[c]
  BY <1>1 DEF Inv, Progress
<1> HIDE DEF r, m
<1>7. ReplyOK(c)'
  BY <1>1, <1>2, <1>3, <1>4, <1>5, <1>6 DEF ReplyOK, Key
<1>8. StoreClean'
  BY <1>1, StoreFrame DEF Inv
<1> QED
  BY <1>1, <1>7, <1>8, FinishStep

LEMMA CacheMissStep ==
    ASSUME Inv, NEW c \in Clients, CacheMiss(c)
    PROVE  Inv'
<1>1. pc[c] = "cache" /\ pc'[c] = "forward" /\ UNCHANGED <<rules, req, clear>>
  BY DEF Inv, Domains, CacheMiss
<1>2. Progress(c)'
  BY <1>1 DEF Inv, Progress, Blocked
<1> QED
  BY <1>2, InnerStep DEF CacheMiss, Inv, Domains

LEMMA ForwardOKStep ==
    ASSUME Inv, NEW c \in Clients, NEW a \in Answers, ForwardOK(c, a)
    PROVE  Inv'
<1>1. /\ pc[c] = "forward" /\ pc'[c] = "vet" /\ resp'[c] = Response(c, a)
      /\ todo'[c] = (IF cfg.uncloak THEN a.aliases ELSE << >>)
      /\ UNCHANGED <<cfg, rules, req, clear>>
  BY DEF Inv, Domains, ForwardOK
<1>2. a.aliases \in Seq(Names)
  BY HandlerAssumption
<1>3. Response(c, a).key = Key(req[c]) /\ Response(c, a).answer = a
  BY DEF Response
<1>4. Vetting(c)'
  <2>1. todo'[c] \in Seq(Names)
    BY <1>1, <1>2
  <2>2. cfg'.uncloak => \A n \in Aliases(a) : \E j \in 1..Len(todo'[c]) : todo'[c][j] = n
    BY <1>1 DEF Aliases
  <2> QED
    BY <1>1, <1>3, <2>1, <2>2 DEF Vetting, Key, Aliases
<1>5. Progress(c)'
  BY <1>1, <1>4 DEF Inv, Progress, Blocked
<1> QED
  BY <1>5, InnerStep DEF ForwardOK, Inv, Domains

LEMMA UncloakPassesStep ==
    ASSUME Inv, NEW c \in Clients, UncloakPasses(c)
    PROVE  Inv'
<1>1. /\ pc[c] = "vet" /\ pc' = pc /\ todo[c] # << >> /\ todo'[c] = Tail(todo[c])
      /\ Head(todo[c]) \notin Blocked(rules) /\ UNCHANGED <<cfg, rules, req, resp, clear>>
  BY DEF Inv, Domains, UncloakPasses
<1>2. Vetting(c) /\ Names \ Blocked(rules) \subseteq clear[c]
  BY <1>1 DEF Inv, Progress
<1>3. todo[c] \in Seq(Names)
  BY <1>2 DEF Vetting
<1>4. /\ Head(todo[c]) \in Names /\ Tail(todo[c]) \in Seq(Names)
      /\ \A j \in 1..Len(todo[c]) : \/ todo[c][j] = Head(todo[c])
                                   \/ \E i \in 1..Len(Tail(todo[c])) : Tail(todo[c])[i] = todo[c][j]
  <2>1. /\ Head(todo[c]) \in Names /\ Tail(todo[c]) \in Seq(Names)
        /\ Len(Tail(todo[c])) = Len(todo[c]) - 1
        /\ \A i \in 1..Len(Tail(todo[c])) : Tail(todo[c])[i] = todo[c][i + 1]
    BY <1>1, <1>3, HeadTailProperties
  <2>2. ASSUME NEW j \in 1..Len(todo[c]), j # 1
        PROVE  j - 1 \in 1..Len(Tail(todo[c])) /\ Tail(todo[c])[j - 1] = todo[c][j]
    BY <1>3, <2>1, <2>2
  <2>3. todo[c][1] = Head(todo[c])
    BY <1>1, <1>3
  <2> QED
    BY <2>1, <2>2, <2>3
<1>5. Head(todo[c]) \in clear[c]
  BY <1>1, <1>2, <1>4
<1>6. Vetting(c)'
  <2>1. resp'[c].key = Key(req[c]) /\ resp'[c].answer \in Answers
    BY <1>1, <1>2 DEF Vetting
  <2>2. ASSUME cfg.uncloak, NEW n \in Aliases(resp[c].answer)
        PROVE  n \in clear[c] \/ \E i \in 1..Len(todo'[c]) : todo'[c][i] = n
    <3>1. n \in clear[c] \/ \E j \in 1..Len(todo[c]) : todo[c][j] = n
      BY <1>2, <2>2 DEF Vetting
    <3> QED
      BY <1>1, <1>4, <1>5, <3>1
  <2>3. UNCHANGED <<Key(req[c]), Aliases(resp[c].answer), cfg, clear[c]>> /\ pc'[c] # "save"
    BY <1>1 DEF Key, Aliases
  <2>4. todo'[c] \in Seq(Names)
    BY <1>1, <1>4
  <2> QED
    BY <2>1, <2>2, <2>3, <2>4 DEF Vetting
<1>7. Progress(c)'
  BY <1>1, <1>6 DEF Inv, Progress, Blocked
<1> QED
  BY <1>1, <1>7, InnerStep DEF UncloakPasses, Inv, Domains

LEMMA RebindPassesStep ==
    ASSUME Inv, NEW c \in Clients, RebindPasses(c)
    PROVE  Inv'
<1>1. /\ pc[c] = "vet" /\ pc'[c] = "save" /\ todo[c] = << >> /\ ~Rebinding(c)
      /\ UNCHANGED <<cfg, rules, req, resp, todo, clear>>
  BY DEF Inv, Domains, RebindPasses
<1>2. Vetting(c)
  BY <1>1 DEF Inv, Progress
<1>3. Vetting(c)'
  <2>1. UNCHANGED <<Key(req[c]), Aliases(resp[c].answer), cfg, clear[c], resp[c], todo[c]>>
    BY <1>1 DEF Key, Aliases
  <2>2. ~Rebinding(c)'
    BY <1>1 DEF Rebinding
  <2> QED
    BY <1>1, <1>2, <2>1, <2>2 DEF Vetting
<1>4. Progress(c)'
  BY <1>1, <1>3 DEF Inv, Progress, Blocked
<1> QED
  BY <1>4, InnerStep DEF RebindPasses, Inv, Domains

LEMMA SaveAndReplyStep ==
    ASSUME Inv, NEW c \in Clients, SaveAndReply(c)
    PROVE  Inv'
<1> DEFINE m == resp[c]
           r == Message("forwarded", c, m)
<1>1. /\ pc[c] = "save" /\ Finish(c, r) /\ UNCHANGED <<cfg, rules, req, clear>>
      /\ store' = (IF m.answer.cacheable THEN Saved(c, m) ELSE store)
  BY DEF SaveAndReply
<1>2. Vetting(c) /\ req[c].name \in clear[c]
  BY <1>1 DEF Inv, Progress
<1>3. /\ m.key = Key(req[c]) /\ todo[c] = << >>
      /\ cfg.rebind /\ m.answer.private => req[c].name \in LocalNames
  BY <1>1, <1>2 DEF Vetting, Rebinding
<1>4. cfg.uncloak => Aliases(m.answer) \subseteq clear[c]
  BY <1>2, <1>3 DEF Vetting
<1>5. reply'[c] = r
  BY <1>1 DEF Inv, Domains, Finish
<1>6. r.kind = "forwarded" /\ r.id = c /\ r.key = m.key /\ r.answer = m.answer
  BY DEF Message
<1>7. Key(req[c])[1] = req[c].name
  BY DEF Key
<1> HIDE DEF r, m
<1>8. ReplyOK(c)'
  BY <1>1, <1>2, <1>3, <1>4, <1>5, <1>6 DEF ReplyOK, Key, Aliases
<1>9. StoreClean'
  <2>1. CASE store' = store
    BY <1>1, <2>1, StoreFrame DEF Inv
  <2>2. CASE store' = Saved(c, m)
    <3>1. ASSUME NEW k \in DOMAIN store'
          PROVE  /\ store'[k].key = k
                 /\ cfg.rebind /\ store'[k].answer.private => k[1] \in LocalNames
      <4>1. CASE k = Key(req[c])
        BY <1>3, <1>7, <2>2, <4>1 DEF Saved
      <4>2. CASE k # Key(req[c])
        <5>1. k \in DOMAIN store /\ store'[k] = store[k]
          BY <2>2, <4>2 DEF Saved
        <5> QED
          BY <5>1 DEF Inv, StoreClean
      <4> QED
        BY <4>1, <4>2
    <3> QED
      BY <1>1, <3>1 DEF StoreClean
  <2> QED
    BY <1>1, <2>1, <2>2
<1> QED
  BY <1>1, <1>8, <1>9, FinishStep

LEMMA DropStep ==
    ASSUME Inv, NEW k, Drop(k)
    PROVE  Inv'
<1>1. Domains'
  BY DEF Inv, Domains, Drop
<1>2. StoreClean'
  BY DEF Inv, StoreClean, Drop
<1>3. ASSUME NEW c \in Clients PROVE Progress(c)' /\ ReplyOK(c)'
  BY ProgressFrame, ReplyFrame DEF Inv, Drop
<1> QED
  BY <1>1, <1>2, <1>3 DEF Inv

LEMMA ReloadStep ==
    ASSUME Inv, NEW black, Reload(black)
    PROVE  Inv'
<1>1. Domains' /\ StoreClean'
  BY StoreFrame DEF Inv, Domains, Reload
<1>2. ASSUME NEW c \in Clients PROVE Progress(c)' /\ ReplyOK(c)'
  <2>1. /\ UNCHANGED <<cfg, pc, req, resp, todo, reply>> /\ rules' = black
        /\ clear'[c] = IF pc[c] = "idle" THEN clear[c] ELSE clear[c] \cup (Names \ Blocked(black))
    BY DEF Reload
  <2>2. clear[c] \subseteq clear'[c]
    BY <2>1
  <2>3. ReplyOK(c)'
    BY <2>1, <2>2 DEF Inv, ReplyOK, FromUpstream, Aliases, Key
  <2>4. Vetting(c) => Vetting(c)'
    BY <2>1, <2>2 DEF Vetting, Rebinding, Aliases, Key
  <2>5. Progress(c)'
    BY <2>1, <2>2, <2>4 DEF Inv, Progress, Blocked
  <2> QED
    BY <2>3, <2>5
<1> QED
  BY <1>1, <1>2 DEF Inv

LEMMA InvStep == Inv /\ [Next]_vars => Inv'
<1> SUFFICES ASSUME Inv, [Next]_vars PROVE Inv'
  OBVIOUS
<1>1. CASE UNCHANGED vars
  BY <1>1, ProgressFrame, ReplyFrame, StoreFrame DEF vars, Inv, Domains
<1>2. ASSUME NEW c \in Clients, ServeDNS(c) PROVE Inv'
  <2>1. CASE FilterBlocks(c)
    BY <2>1, RefusalStep, SinkholeFacts DEF FilterBlocks
  <2>2. CASE ForwardErr(c)
    BY <2>2, RefusalStep DEF ForwardErr
  <2>3. CASE UncloakBlocks(c)
    BY <2>3, RefusalStep, SinkholeFacts DEF UncloakBlocks
  <2>4. CASE RebindBlocks(c)
    BY <2>4, RefusalStep, SinkholeFacts DEF RebindBlocks
  <2> QED
    BY <1>2, <2>1, <2>2, <2>3, <2>4, FilterPassesStep, CacheHitStep, CacheMissStep, ForwardOKStep,
       UncloakPassesStep, RebindPassesStep, SaveAndReplyStep DEF ServeDNS
<1> QED
  BY <1>1, <1>2, ReceiveMalformedStep, ReceiveStep, DropStep, ReloadStep DEF Next

-----------------------------------------------------------------------------
(* The invariant holds in every reachable state. *)
THEOREM Invariance == Spec => []Inv
  BY InvInit, InvStep, PTL DEF Spec

(* A name that is blocked throughout a query is never let through, and     *)
(* with uncloaking no alias of a forwarded answer is, however reloads and  *)
(* queries interleave.                                                     *)
THEOREM OnlyClearedAnswersGiven == Spec => []OnlyClearedAnswers
<1>1. Inv => OnlyClearedAnswers
  BY DEF Inv, ReplyOK, OnlyClearedAnswers
<1> QED
  BY <1>1, Invariance, PTL

(* Rebinding protection cannot be circumvented by way of the cache. *)
THEOREM NoPrivateAnswersGiven == Spec => []NoPrivateAnswers
<1>1. Inv => NoPrivateAnswers
  BY DEF Inv, ReplyOK, NoPrivateAnswers
<1> QED
  BY <1>1, Invariance, PTL

(* Replies are never mixed up between concurrent queries: id and question  *)
(* are those of the request, whichever query fetched the answer.           *)
THEOREM RepliesMatchRequests == Spec => []ReplyMatchesRequest
<1>1. Inv => ReplyMatchesRequest
  BY DEF Inv, ReplyOK, ReplyMatchesRequest
<1> QED
  BY <1>1, Invariance, PTL

-----------------------------------------------------------------------------
(* The preparation of the query that goes upstream, UpstreamQuery: a step  *)
(* of ServeDNS that works on a copy of the message, with a state and a     *)
(* specification of its own, PrepareSpec.                                  *)
OptRecord == [do : BOOLEAN, options : Seq(Option)]
Character == [char : STRING, upper : BOOLEAN]

LEMMA MessageIs == Msg = [name : Seq(Character), opt : Seq(OptRecord)]
  BY DEF Msg, Character, OptRecord

LEMMA WithoutCodesIs ==
    ASSUME NEW s, NEW codes PROVE WithoutCodes(s, codes) = Without(s, Coded(codes))
  BY DEF WithoutCodes

LEMMA WithoutCodesType ==
    ASSUME NEW s \in Seq(Option), NEW codes
    PROVE  /\ WithoutCodes(s, codes) \in Seq(Option)
           /\ \A j \in 1..Len(WithoutCodes(s, codes)) :
                 WithoutCodes(s, codes)[j].code \notin codes
<1> DEFINE w == Without(s, Coded(codes))
<1>1. w \in Seq(Option)
  BY WithoutType
<1>2. ASSUME NEW j \in 1..Len(w) PROVE w[j].code \notin codes
  <2>1. w[j] \in Option \ Coded(codes)
    BY WithoutLeaves
  <2> HIDE DEF w
  <2> QED
    BY <2>1 DEF Coded
<1> HIDE DEF w
<1>3. WithoutCodes(s, codes) = w
  BY WithoutCodesIs DEF w
<1> QED
  BY <1>1, <1>2, <1>3

LEMMA WithoutCodesTwice ==
    ASSUME NEW s \in Seq(Option), NEW A, NEW B
    PROVE  WithoutCodes(WithoutCodes(s, A), B) = WithoutCodes(s, A \cup B)
<1>1. Coded(A) \cup Coded(B) = Coded(A \cup B)
  BY DEF Coded
<1>2. Without(Without(s, Coded(A)), Coded(B))
        = Without(s, Coded(A) \cup Coded(B))
  BY WithoutTwice
<1> QED
  BY <1>1, <1>2, WithoutCodesIs

LEMMA WithoutCodesAppend ==
    ASSUME NEW s \in Seq(Option), NEW o \in Option, NEW codes, o.code \in codes
    PROVE  WithoutCodes(Append(s, o), codes) = WithoutCodes(s, codes)
<1>1. o \in Coded(codes)
  BY DEF Coded
<1>2. Without(Append(s, o), Coded(codes)) = Without(s, Coded(codes))
  BY <1>1, WithoutAppend
<1> QED
  BY <1>2, WithoutCodesIs

(* The bytes of the options are a sum. *)
LEMMA BytesDef ==
    ASSUME NEW s \in Seq(Option)
    PROVE  \E b : /\ \A i \in 0..Len(s) : b[i] \in Nat
                  /\ b[0] = 0
                  /\ \A i \in 1..Len(s) : b[i] = b[i - 1] + Size(s[i])
                  /\ OptionBytes(s) = b[Len(s)]
<1> DEFINE n == Len(s)
           Body(g, i) == IF i = 0 THEN 0 ELSE g[i - 1] + Size(s[i])
           Def(g) == g = [i \in 0..n |-> Body(g, i)]
           next == [x \in Nat \X (1..n) |-> x[1] + Size(s[x[2]])]
<1>1. n \in Nat /\ \A i \in 1..n : s[i] \in Option
  OBVIOUS
<1>2. \A i \in 1..n : Size(s[i]) \in Nat
  BY <1>1 DEF Size, Option
<1>3. next \in [Nat \X (1..n) -> Nat]
  BY <1>2
<1>4. \A x \in Nat, i \in 1..n : next[<<x, i>>] = x + Size(s[i])
  OBVIOUS
<1> HIDE DEF next, n
<1>5. PICK g \in [0..n -> Nat] : ByRecursion(g, n, 0, next)
  BY <1>1, <1>3, Recursion
<1>6. g[0] = 0 /\ \A i \in 1..n : g[i] = next[<<g[i - 1], i>>]
  BY <1>5 DEF ByRecursion
<1>7. ASSUME NEW i \in 0..n PROVE g[i] = Body(g, i)
  <2>1. CASE i = 0
    BY <1>6, <2>1
  <2>2. CASE i # 0
    <3>1. i \in 1..n /\ i - 1 \in 0..n
      BY <1>1, <2>2
    <3>2. g[i - 1] \in Nat
      BY <3>1
    <3> QED
      BY <1>4, <1>6, <2>2, <3>1, <3>2
  <2> QED
    BY <2>1, <2>2
<1>8. Def(g)
  <2>1. g = [i \in 0..n |-> g[i]]
    OBVIOUS
  <2> HIDE DEF Body
  <2> QED
    BY <1>7, <2>1
<1> DEFINE b == CHOOSE f : Def(f)
<1>9. Def(b)
  <2> HIDE DEF Def
  <2> QED
    BY <1>8
<1>10. OptionBytes(s) = b[n]
  BY DEF OptionBytes, n
<1> HIDE DEF b
<1>11. \A i \in 0..n : b[i] = Body(b, i)
  <2> HIDE DEF Body
  <2> QED
    BY <1>9
<1>12. b[0] = 0 /\ \A i \in 1..n : b[i] = b[i - 1] + Size(s[i])
  BY <1>1, <1>11
<1>13. \A i \in 0..n : b[i] \in Nat
  <2> DEFINE Good == {i \in 0..n : b[i] \in Nat}
  <2>1. 0 \in Good
    BY <1>1, <1>12
  <2>2. ASSUME NEW i \in 0..(n - 1), i \in Good PROVE i + 1 \in Good
    <3>1. i + 1 \in 1..n /\ (i + 1) - 1 = i /\ i + 1 \in 0..n
      BY <1>1
    <3>2. b[i + 1] = b[i] + Size(s[i + 1])
      BY <1>12, <3>1
    <3>3. b[i] \in Nat /\ Size(s[i + 1]) \in Nat
      BY <1>2, <2>2, <3>1
    <3> QED
      BY <3>1, <3>2, <3>3
  <2> HIDE DEF Good
  <2>3. \A i \in 0..n : i \in Good
    BY <1>1, <2>1, <2>2, Induction
  <2> QED
    BY <2>3 DEF Good
<1> QED
  BY <1>10, <1>12, <1>13 DEF n

LEMMA BytesAppend ==
    ASSUME NEW s \in Seq(Option), NEW o \in Option
    PROVE  /\ OptionBytes(s) \in Nat
           /\ OptionBytes(Append(s, o)) = OptionBytes(s) + 4 + o.size
<1> DEFINE n == Len(s)
           t == Append(s, o)
<1>1. /\ n \in Nat /\ t \in Seq(Option) /\ Len(t) = n + 1
      /\ t[n + 1] = o /\ \A i \in 1..n : t[i] = s[i]
  BY AppendProperties
<1>2. PICK b : /\ \A i \in 0..n : b[i] \in Nat
               /\ b[0] = 0
               /\ \A i \in 1..n : b[i] = b[i - 1] + Size(s[i])
               /\ OptionBytes(s) = b[n]
  BY BytesDef
<1> HIDE DEF t
<1>3. PICK c : /\ \A i \in 0..(n + 1) : c[i] \in Nat
               /\ c[0] = 0
               /\ \A i \in 1..(n + 1) : c[i] = c[i - 1] + Size(t[i])
               /\ OptionBytes(t) = c[n + 1]
  BY <1>1, BytesDef
<1> HIDE DEF n
<1> DEFINE Good == {i \in 0..n : c[i] = b[i]}
<1>4. 0 \in Good
  BY <1>1, <1>2, <1>3
<1>5. ASSUME NEW i \in 0..(n - 1), i \in Good PROVE i + 1 \in Good
  <2>1. i + 1 \in 1..n /\ i + 1 \in 1..(n + 1) /\ i + 1 \in 0..n /\ (i + 1) - 1 = i /\ c[i] = b[i]
    BY <1>1, <1>5
  <2>2. b[i + 1] = b[i] + Size(s[i + 1])
    BY <1>2, <2>1
  <2>3. c[i + 1] = c[i] + Size(s[i + 1])
    BY <1>1, <1>3, <2>1
  <2> QED
    BY <2>1, <2>2, <2>3
<1> HIDE DEF Good
<1>6. \A i \in 0..n : i \in Good
  BY <1>1, <1>4, <1>5, Induction
<1>7. c[n] = b[n] /\ b[n] \in Nat
  BY <1>1, <1>2, <1>6 DEF Good
<1>8. n + 1 \in 1..(n + 1) /\ (n + 1) - 1 = n
  BY <1>1
<1>9. c[n + 1] = c[n] + Size(o)
  BY <1>1, <1>3, <1>8
<1>10. Size(o) = 4 + o.size /\ o.size \in Nat
  BY DEF Size, Option
<1>11. c[n + 1] = b[n] + 4 + o.size
  BY <1>7, <1>9, <1>10
<1> QED
  BY <1>2, <1>3, <1>7, <1>11 DEF t

(* Padding: what is missing to a whole number of blocks. *)
LEMMA PadFills ==
    ASSUME NEW base \in Nat, NEW B \in Nat \ {0}, NEW p,
           p = IF base % B = 0 THEN 0 ELSE B - (base % B)
    PROVE  p \in 0..(B - 1) /\ (base + p) % B = 0
<1> DEFINE q == base \div B
           m == base % B
<1>1. q \in Int /\ m \in 0..(B - 1) /\ base = B * q + m
  BY DivMod, ModRange
<1> HIDE DEF q, m
<1>2. CASE m = 0
  <2>1. p = 0 /\ base + p = base /\ base % B = 0
    BY <1>2 DEF m
  <2> QED
    BY <2>1
<1>3. CASE m # 0
  <2>1. p = B - m
    BY <1>3 DEF m
  <2>2. B * (q + 1) = B * q + B /\ B * q \in Int /\ q + 1 \in Int
    BY <1>1
  <2>3. base + p = B * (q + 1) + 0 /\ base + p \in Int /\ 0 \in 0..(B - 1)
    BY <1>1, <2>1, <2>2
  <2>4. (base + p) % B = 0
    <3> DEFINE x == base + p
               k == q + 1
    <3>1. x \in Int /\ k \in Int /\ x = B * k + 0 /\ 0 \in 0..(B - 1)
      BY <2>2, <2>3
    <3> HIDE DEF x, k
    <3>2. x % B = 0
      BY <3>1, ModIs
    <3> QED
      BY <3>2 DEF x
  <2> QED
    BY <1>1, <1>3, <2>1, <2>4
<1> QED
  BY <1>2, <1>3

Padding(n) == [code |-> "padding", size |-> n]
Padded(s, n) == Append(WithoutCodes(s, {"padding"}), Padding(n))

LEMMA PaddingIs ==
    ASSUME NEW k \in Nat
    PROVE  Padding(k) \in Option /\ Padding(k).code = "padding" /\ Padding(k).size = k
<1>1. Padding(k).code = "padding" /\ Padding(k).size = k
  BY Zenon DEF Padding
<1>2. "padding" \in Codes
  BY UpstreamQueryAssumption DEF WellFormed
<1>3. Padding(k) \in Option
  BY <1>2 DEF Padding, Option
<1> QED
  BY <1>1, <1>3

LEMMA PaddedFacts ==
    ASSUME NEW s \in Seq(Option), NEW n \in Nat
    PROVE  /\ Padded(s, n) \in Seq(Option)
           /\ WithoutCodes(Padded(s, n), {"padding"}) = WithoutCodes(s, {"padding"})
           /\ \E i \in DOMAIN Padded(s, n) :
                 {i} = {j \in DOMAIN Padded(s, n) : Padded(s, n)[j].code = "padding"}
           /\ OptionBytes(Padded(s, 0)) \in Nat
           /\ OptionBytes(Padded(s, n)) = OptionBytes(Padded(s, 0)) + n
<1> DEFINE w == WithoutCodes(s, {"padding"})
           t == Append(w, Padding(n))
<1>1. w \in Seq(Option) /\ \A j \in 1..Len(w) : w[j].code \notin {"padding"}
  BY WithoutCodesType
<1>2. ASSUME NEW k \in Nat
      PROVE  Padding(k) \in Option /\ Padding(k).code = "padding" /\ Padding(k).size = k
  BY PaddingIs
<1>3. WithoutCodes(w, {"padding"}) = w
  <2>1. {"padding"} \cup {"padding"} = {"padding"}
    OBVIOUS
  <2> QED
    BY <2>1, WithoutCodesTwice
<1> HIDE DEF w
<1>4. WithoutCodes(t, {"padding"}) = w
  <2>1. Padding(n) \in Option /\ Padding(n).code \in {"padding"}
    BY <1>2
  <2> QED
    BY <1>1, <1>3, <2>1, WithoutCodesAppend
<1>5. /\ t \in Seq(Option) /\ Len(w) \in Nat /\ Len(t) = Len(w) + 1
      /\ t[Len(w) + 1] = Padding(n) /\ \A j \in 1..Len(w) : t[j] = w[j]
  BY <1>1, <1>2, AppendProperties
<1> HIDE DEF t
<1>6. \E i \in DOMAIN t : {i} = {j \in DOMAIN t : t[j].code = "padding"}
  <2>1. DOMAIN t = 1..(Len(w) + 1)
    BY <1>5
  <2>2. \A j \in 1..(Len(w) + 1) : t[j].code = "padding" <=> j = Len(w) + 1
    <3>1. ASSUME NEW j \in 1..(Len(w) + 1), j # Len(w) + 1 PROVE t[j].code # "padding"
      <4>1. j \in 1..Len(w)
        BY <1>5, <3>1
      <4> QED
        BY <1>1, <1>5, <4>1
    <3>2. t[Len(w) + 1].code = "padding"
      BY <1>2, <1>5
    <3> QED
      BY <3>1, <3>2
  <2>3. Len(w) + 1 \in 1..(Len(w) + 1)
    BY <1>5
  <2> QED
    BY <2>1, <2>2, <2>3
<1>7. /\ OptionBytes(w) \in Nat
      /\ OptionBytes(Append(w, Padding(n))) = OptionBytes(w) + 4 + n
      /\ OptionBytes(Append(w, Padding(0))) = OptionBytes(w) + 4 + 0
  <2>1. /\ Padding(n) \in Option /\ Padding(n).size = n
        /\ Padding(0) \in Option /\ Padding(0).size = 0
    BY <1>2
  <2> QED
    BY <1>1, <2>1, BytesAppend
<1>8. /\ OptionBytes(Append(w, Padding(0))) \in Nat
      /\ OptionBytes(Append(w, Padding(n))) = OptionBytes(Append(w, Padding(0))) + n
  BY <1>7
<1> QED
  BY <1>4, <1>5, <1>6, <1>8 DEF Padded, w, t

(* ApplyEDNS0Padding on a message that has an OPT record. *)
WithOpt(m) == m \in Msg /\ Len(m.opt) = 1

LEMMA WithPaddingFacts ==
    ASSUME NEW m, WithOpt(m), NEW n \in Nat, NEW w, w = WithPadding(m, n)
    PROVE  /\ WithOpt(w) /\ w.name = m.name /\ w.opt[1].do = m.opt[1].do
           /\ w.opt[1].options = Padded(m.opt[1].options, n)
<1> DEFINE o == m.opt[1]
           p == Padded(o.options, n)
           e == [o EXCEPT !.options = p]
<1>1. m \in [name : Seq(Character), opt : Seq(OptRecord)] /\ Len(m.opt) = 1
  BY MessageIs DEF WithOpt
<1>2. o \in OptRecord
  BY <1>1
<1>3. o.options \in Seq(Option)
  BY <1>2 DEF OptRecord
<1>4. p \in Seq(Option)
  BY <1>3, PaddedFacts
<1>5. w = [m EXCEPT !.opt = [@ EXCEPT ![1] = e]]
  BY DEF WithPadding, Padded, Padding
<1> HIDE DEF p, o
<1>6. e \in OptRecord /\ e.do = o.do /\ e.options = p
  BY <1>2, <1>4 DEF OptRecord
<1> HIDE DEF e
<1>7. <<e>> \in Seq(OptRecord) /\ Len(<<e>>) = 1 /\ <<e>>[1] = e
  BY <1>6
<1>8. w.name = m.name /\ w.opt = <<e>> /\ w \in [name : Seq(Character), opt : Seq(OptRecord)]
  BY <1>1, <1>5, <1>7
<1> QED
  BY <1>6, <1>7, <1>8, MessageIs DEF WithOpt, p, o

LEMMA MsgLenIs ==
    ASSUME NEW m, WithOpt(m), OptionBytes(m.opt[1].options) \in Nat
    PROVE  /\ MsgLen(m) \in Nat
           /\ MsgLen(m) = 28 + Len(m.name) + OptionBytes(m.opt[1].options)
<1>1. m \in [name : Seq(Character), opt : Seq(OptRecord)] /\ Len(m.opt) = 1
  BY MessageIs DEF WithOpt
<1>2. m.opt # << >> /\ Len(m.name) \in Nat
  BY <1>1
<1> DEFINE x == OptionBytes(m.opt[1].options)
           l == Len(m.name)
<1>3. MsgLen(m) = 12 + l + 1 + 4 + (11 + x)
  BY <1>2 DEF MsgLen
<1>4. x \in Nat /\ l \in Nat
  BY <1>2
<1> HIDE DEF x, l
<1>5. MsgLen(m) \in Nat /\ MsgLen(m) = 28 + l + x
  BY <1>3, <1>4
<1> QED
  BY <1>5 DEF x, l

LEMMA PaddedLength ==
    ASSUME NEW m, WithOpt(m), NEW n \in Nat
    PROVE  /\ MsgLen(WithPadding(m, 0)) \in Nat
           /\ MsgLen(WithPadding(m, n)) = MsgLen(WithPadding(m, 0)) + n
           /\ MsgLen(WithPadding(WithPadding(m, n), 0))
                 = MsgLen(WithPadding(m, 0))
<1> DEFINE o == m.opt[1].options
           w0 == WithPadding(m, 0)
           wn == WithPadding(m, n)
           v == WithPadding(wn, 0)
           l == Len(m.name)
           b == OptionBytes(Padded(o, 0))
<1>1. o \in Seq(Option) /\ l \in Nat
  <2>1. m \in [name : Seq(Character), opt : Seq(OptRecord)] /\ Len(m.opt) = 1
    BY MessageIs DEF WithOpt
  <2>2. m.opt[1] \in OptRecord
    BY <2>1
  <2> QED
    BY <2>1, <2>2 DEF OptRecord
<1>2. WithOpt(w0) /\ w0.name = m.name /\ w0.opt[1].options = Padded(o, 0)
  BY WithPaddingFacts
<1>3. WithOpt(wn) /\ wn.name = m.name /\ wn.opt[1].options = Padded(o, n)
  BY WithPaddingFacts
<1> HIDE DEF w0, wn
<1>4. WithOpt(v) /\ v.name = m.name /\ v.opt[1].options = Padded(Padded(o, n), 0)
  BY <1>3, WithPaddingFacts
<1> HIDE DEF v, o
<1>5. /\ b \in Nat /\ OptionBytes(Padded(o, n)) = b + n
      /\ WithoutCodes(Padded(o, n), {"padding"}) = WithoutCodes(o, {"padding"})
  BY <1>1, PaddedFacts
<1>6. Padded(Padded(o, n), 0) = Padded(o, 0)
  BY <1>5 DEF Padded
<1> HIDE DEF b
<1>7. MsgLen(w0) \in Nat /\ MsgLen(w0) = 28 + l + b
  BY <1>2, <1>5, MsgLenIs DEF b
<1>8. MsgLen(wn) = 28 + l + (b + n)
  <2>1. b + n \in Nat
    BY <1>5
  <2>2. OptionBytes(wn.opt[1].options) = b + n
    BY <1>3, <1>5
  <2> QED
    BY <1>3, <2>1, <2>2, MsgLenIs
<1>9. MsgLen(v) = 28 + l + b
  <2>1. OptionBytes(v.opt[1].options) = b
    BY <1>4, <1>6 DEF b
  <2> QED
    BY <1>4, <1>5, <2>1, MsgLenIs
<1> HIDE DEF l
<1>10. MsgLen(wn) = MsgLen(w0) + n
  BY <1>1, <1>5, <1>7, <1>8
<1> QED
  BY <1>7, <1>9, <1>10 DEF w0, wn, v

-----------------------------------------------------------------------------
(* What the copy has kept of the client's message, step by step. *)
SameQuestion(m) ==
    /\ DOMAIN m.name = DOMAIN query.name
    /\ \A i \in DOMAIN query.name :
          /\ m.name[i].char = query.name[i].char
          /\ Letter(query.name[i]) \/ m.name[i] = query.name[i]

DoBit(m) == \E i \in DOMAIN m.opt : m.opt[i].do

Stripped(m) ==
    /\ \A i \in DOMAIN Options(m) : Options(m)[i].code # "subnet"
    /\ WithoutCodes(Options(m), {"padding"})
          = WithoutCodes(Options(query), {"subnet", "padding"})

PrepareInv ==
    /\ setting \in Settings /\ query \in Messages /\ step \in {"case", "edns", "pad", "done"}
    /\ outgoing \in Msg /\ Len(outgoing.opt) <= 1
    /\ SameQuestion(outgoing)
    /\ step \in {"case", "edns"} => outgoing.opt = query.opt
    /\ step \in {"pad", "done"} =>
          /\ DoBit(outgoing) <=> setting.dnssec \/ DoBit(query)
          /\ Stripped(outgoing)
    /\ step = "pad" /\ setting.padding => outgoing.opt # << >>
    /\ PaddedToBlock

LEMMA PreparedFirst == ASSUME PrepareInit PROVE PrepareInv
<1>1. setting \in Settings /\ query \in Messages /\ outgoing = query /\ step = "case"
  BY DEF PrepareInit
<1>2. outgoing \in Msg /\ Len(outgoing.opt) <= 1
  BY <1>1, UpstreamQueryAssumption DEF WellFormed
<1>3. SameQuestion(outgoing)
  BY <1>1 DEF SameQuestion
<1>4. PaddedToBlock
  BY <1>1 DEF PaddedToBlock, Done
<1> QED
  BY <1>1, <1>2, <1>3, <1>4 DEF PrepareInv

(* There are random bits for every character. *)
LEMMA EnoughBytes ==
    ASSUME NEW n \in Nat, NEW i \in 1..n
    PROVE  ((i - 1) \div 8) + 1 \in 1..((n + 7) \div 8) /\ (i - 1) % 8 \in 0..7
  OBVIOUS

LEMMA RandomizeFacts ==
    ASSUME NEW name \in Seq(Character),
           NEW rand \in [1..randBytes(name) -> Bytes]
    PROVE  /\ \A i \in DOMAIN name : ByteOf(i) \in DOMAIN rand
           /\ Randomize0x20(name, rand) \in Seq(Character)
           /\ DOMAIN Randomize0x20(name, rand) = DOMAIN name
           /\ \A i \in DOMAIN name :
                 /\ Randomize0x20(name, rand)[i].char = name[i].char
                 /\ Letter(name[i]) \/ Randomize0x20(name, rand)[i] = name[i]
<1> DEFINE n == Len(name)
           c == Randomize0x20(name, rand)
           Draw(i) == Bit(i, rand) = 1
<1>1. n \in Nat /\ DOMAIN name = 1..n /\ \A i \in 1..n : name[i] \in Character
  OBVIOUS
<1> HIDE DEF n
<1>2. \A i \in 1..n : ByteOf(i) \in DOMAIN rand
  <2>1. DOMAIN rand = 1..((n + 7) \div 8)
    BY DEF randBytes, n
  <2> QED
    BY <1>1, <2>1, EnoughBytes DEF ByteOf
<1>3. c = [i \in 1..n |-> IF Letter(name[i]) THEN [name[i] EXCEPT !.upper = Draw(i)] ELSE name[i]]
  BY <1>1 DEF Randomize0x20
<1>4. \A i \in 1..n : Draw(i) \in BOOLEAN
  OBVIOUS
<1> HIDE DEF c, Draw
<1>5. DOMAIN c = 1..n
  BY <1>3
<1>6. ASSUME NEW i \in 1..n
      PROVE  /\ c[i] \in Character /\ c[i].char = name[i].char
             /\ Letter(name[i]) \/ c[i] = name[i]
  <2> DEFINE x == name[i]
             u == Draw(i)
  <2>1. c[i] = IF Letter(x) THEN [x EXCEPT !.upper = u] ELSE x
    BY <1>3
  <2>2. x \in Character /\ u \in BOOLEAN
    BY <1>1, <1>4
  <2> HIDE DEF x, u
  <2>3. [x EXCEPT !.upper = u] \in Character /\ [x EXCEPT !.upper = u].char = x.char
    BY <2>2 DEF Character
  <2>4. c[i] \in Character /\ c[i].char = x.char /\ (Letter(x) \/ c[i] = x)
    BY <2>1, <2>2, <2>3
  <2> QED
    BY <2>4 DEF x
<1>7. c \in Seq(Character)
  <2>1. c \in [1..n -> Character]
    BY <1>3, <1>5, <1>6
  <2> QED
    BY <1>1, <2>1
<1> QED
  BY <1>1, <1>2, <1>5, <1>6, <1>7 DEF c

LEMMA RandomizeStep ==
    ASSUME PrepareInv, RandomizeCase PROVE PrepareInv'
<1>1. PICK rand \in [1..randBytes(query.name) -> Bytes] :
          IF ~setting.dns0x20 THEN outgoing' = outgoing /\ step' = "edns"
          ELSE IF \E i \in DOMAIN query.name : Letter(query.name[i]) /\ ByteOf(i) \notin DOMAIN rand
          THEN outgoing' = outgoing /\ step' = "panic"
          ELSE outgoing' = [outgoing EXCEPT !.name = Randomize0x20(@, rand)] /\ step' = "edns"
  BY DEF RandomizeCase
<1>2. step = "case" /\ UNCHANGED <<setting, query>>
  BY DEF RandomizeCase
<1>3. outgoing \in [name : Seq(Character), opt : Seq(OptRecord)] /\ query \in [name : Seq(Character), opt : Seq(OptRecord)]
  BY MessageIs, UpstreamQueryAssumption DEF PrepareInv, WellFormed
<1>4. /\ DOMAIN outgoing.name = DOMAIN query.name
      /\ Len(outgoing.name) = Len(query.name)
  BY <1>3 DEF PrepareInv, SameQuestion
<1>5. rand \in [1..randBytes(outgoing.name) -> Bytes]
  BY <1>4 DEF randBytes
<1> DEFINE name == outgoing.name
           c == Randomize0x20(name, rand)
<1>6. /\ \A i \in DOMAIN name : ByteOf(i) \in DOMAIN rand
      /\ c \in Seq(Character) /\ DOMAIN c = DOMAIN name
      /\ \A i \in DOMAIN name : c[i].char = name[i].char /\ (Letter(name[i]) \/ c[i] = name[i])
  BY <1>3, <1>5, RandomizeFacts
<1>7. \/ outgoing' = outgoing /\ step' = "edns"
      \/ outgoing' = [outgoing EXCEPT !.name = c] /\ step' = "edns"
  BY <1>1, <1>4, <1>6
<1> HIDE DEF c
<1>8. /\ outgoing' \in [name : Seq(Character), opt : Seq(OptRecord)] /\ outgoing'.opt = outgoing.opt
      /\ outgoing'.name = outgoing.name \/ outgoing'.name = c
  BY <1>3, <1>6, <1>7
<1>9. SameQuestion(outgoing)'
  <2>1. ASSUME NEW i \in DOMAIN query.name
        PROVE  /\ outgoing'.name[i].char = query.name[i].char
               /\ Letter(query.name[i]) \/ outgoing'.name[i] = query.name[i]
    <3>1. /\ name[i].char = query.name[i].char
          /\ Letter(query.name[i]) \/ name[i] = query.name[i]
      BY DEF PrepareInv, SameQuestion
    <3>2. CASE outgoing'.name = name
      BY <3>1, <3>2
    <3>3. CASE outgoing'.name = c
      <4>1. c[i].char = name[i].char /\ (Letter(name[i]) \/ c[i] = name[i])
        BY <1>4, <1>6
      <4>2. Letter(name[i]) <=> Letter(query.name[i])
        BY <3>1 DEF Letter
      <4> QED
        BY <3>1, <3>3, <4>1, <4>2
    <3> QED
      BY <1>8, <3>2, <3>3
  <2>2. DOMAIN outgoing'.name = DOMAIN query.name
    BY <1>4, <1>6, <1>8
  <2> QED
    BY <1>2, <2>1, <2>2 DEF SameQuestion, Letter
<1>10. PaddedToBlock'
  BY <1>7 DEF PaddedToBlock, Done
<1> QED
  BY <1>2, <1>7, <1>8, <1>9, <1>10, MessageIs DEF PrepareInv

(* The options of a message with an OPT record, and of one without. *)
LEMMA OptionsOf ==
    ASSUME NEW m \in Msg, Len(m.opt) <= 1
    PROVE  /\ Options(m) \in Seq(Option)
           /\ \/ /\ m.opt = << >> /\ Options(m) = << >> /\ ~DoBit(m)
              \/ /\ Len(m.opt) = 1 /\ m.opt[1] \in OptRecord /\ m.opt # << >>
                 /\ Options(m) = m.opt[1].options
                 /\ DoBit(m) <=> m.opt[1].do
<1>1. m \in [name : Seq(Character), opt : Seq(OptRecord)]
  BY MessageIs
<1> DEFINE q == m.opt
<1>2. q \in Seq(OptRecord) /\ Len(q) \in {0, 1}
  <2>1. q \in Seq(OptRecord)
    BY <1>1
  <2>2. Len(q) \in Nat /\ Len(q) <= 1
    BY <2>1
  <2>3. \A k \in Nat : k <= 1 => k \in {0, 1}
    OBVIOUS
  <2> QED
    BY <2>1, <2>2, <2>3, Zenon
<1> HIDE DEF q
<1>3. CASE Len(q) = 0
  <2>1. q = << >>
    BY <1>2, <1>3, EmptySeq
  <2>2. Options(m) = << >> /\ << >> \in Seq(Option)
    BY <2>1 DEF Options, q
  <2>3. ~DoBit(m)
    BY <1>2, <1>3 DEF DoBit, q
  <2> QED
    BY <2>1, <2>2, <2>3 DEF q
<1>4. CASE Len(q) = 1
  <2>1. q # << >> /\ q[1] \in OptRecord /\ DOMAIN q = {1}
    <3>1. DOMAIN q = 1..1 /\ 1 \in 1..1 /\ 1..1 = {1}
      BY <1>2, <1>4
    <3>2. q # << >>
      BY <1>4
    <3>3. q[1] \in OptRecord
      <4>1. ASSUME NEW S, NEW t \in Seq(S), Len(t) = 1 PROVE t[1] \in S
        <5>1. 1 \in 1..Len(t)
          BY <4>1
        <5> QED
          BY <5>1, ElementOfSeq
      <4> HIDE DEF OptRecord
      <4> QED
        BY <1>2, <1>4, <4>1
    <3> QED
      BY <3>1, <3>2, <3>3
  <2>2. Options(m) = q[1].options
    BY <2>1 DEF Options, q
  <2>3. q[1].options \in Seq(Option)
    BY <2>1 DEF OptRecord
  <2>4. DoBit(m) <=> q[1].do
    BY <2>1 DEF DoBit, q
  <2> QED
    BY <1>4, <2>1, <2>2, <2>3, <2>4 DEF q
<1> QED
  BY <1>2, <1>3, <1>4

LEMMA StrippedOnce ==
    ASSUME NEW m, query \in Msg, Len(query.opt) <= 1,
           Options(m) = WithoutCodes(Options(query), {"subnet"})
    PROVE  Stripped(m)
<1> DEFINE o == Options(query)
           w == WithoutCodes(o, {"subnet"})
<1>1. o \in Seq(Option)
  BY OptionsOf
<1> HIDE DEF o
<1>2. w \in Seq(Option) /\ \A j \in 1..Len(w) : w[j].code \notin {"subnet"}
  BY <1>1, WithoutCodesType
<1>3. {"subnet"} \cup {"padding"} = {"subnet", "padding"}
  OBVIOUS
<1>4. WithoutCodes(w, {"padding"}) = WithoutCodes(o, {"subnet", "padding"})
  BY <1>1, <1>3, WithoutCodesTwice
<1>5. \A i \in DOMAIN w : w[i].code # "subnet"
  <2> HIDE DEF w
  <2> QED
    BY <1>2
<1>6. Options(m) = w
  BY DEF o
<1> HIDE DEF w
<1> QED
  BY <1>4, <1>5, <1>6 DEF Stripped, o

LEMMA EdnsStep ==
    ASSUME PrepareInv, PrepareEdns PROVE PrepareInv'
<1>1. /\ step = "edns" /\ step' = "pad" /\ UNCHANGED <<setting, query>>
      /\ outgoing' = [outgoing EXCEPT !.opt =
            IF outgoing.opt # << >>
            THEN <<[do |-> outgoing.opt[1].do \/ setting.dnssec,
                    options |-> StripSubnet(outgoing.opt[1].options)]>>
            ELSE IF setting.dnssec \/ setting.padding THEN SetEdns0(setting.dnssec) ELSE outgoing.opt]
  BY DEF PrepareEdns
<1>2. /\ outgoing \in [name : Seq(Character), opt : Seq(OptRecord)] /\ outgoing.opt = query.opt
      /\ Len(outgoing.opt) <= 1 /\ outgoing \in Msg
      /\ query \in Msg /\ Len(query.opt) <= 1
  BY <1>1, MessageIs, UpstreamQueryAssumption DEF PrepareInv, WellFormed
<1>3. setting.dnssec \in BOOLEAN /\ setting.padding \in BOOLEAN
  BY UpstreamQueryAssumption DEF PrepareInv, WellFormed
<1> DEFINE A == WithoutCodes(Options(query), {"subnet"})
           Fits(o, do) == o = <<[do |-> do, options |-> A]>>
<1>4. A \in Seq(Option)
  BY <1>2, OptionsOf, WithoutCodesType
<1>5. Options(query) = << >> => A = << >>
  BY WithoutCodesIs, WithoutEmpty
<1> HIDE DEF A
<1>6. /\ outgoing' \in Msg /\ Len(outgoing'.opt) <= 1 /\ outgoing'.name = outgoing.name
      /\ Options(outgoing') = A
      /\ DoBit(outgoing') <=> setting.dnssec \/ DoBit(query)
      /\ setting.padding => outgoing'.opt # << >>
  <2>1. CASE outgoing.opt # << >> \/ setting.dnssec \/ setting.padding
    <3>1. PICK do \in BOOLEAN : /\ do <=> DoBit(query) \/ setting.dnssec
                                /\ outgoing' = [outgoing EXCEPT !.opt = <<[do |-> do, options |-> A]>>]
      <4>1. CASE outgoing.opt # << >>
        <5>1. /\ query.opt[1] \in OptRecord /\ Options(query) = query.opt[1].options
              /\ DoBit(query) <=> query.opt[1].do
          BY <1>2, <4>1, OptionsOf
        <5>2. A = StripSubnet(outgoing.opt[1].options)
          BY <1>2, <5>1 DEF A, StripSubnet
        <5>3. outgoing.opt[1].do \in BOOLEAN
          BY <1>2, <5>1 DEF OptRecord
        <5> DEFINE d == outgoing.opt[1].do \/ setting.dnssec
        <5>4. d \in BOOLEAN /\ (d <=> DoBit(query) \/ setting.dnssec)
          BY <1>2, <5>1
        <5>5. outgoing' = [outgoing EXCEPT !.opt = <<[do |-> d, options |-> A]>>]
          BY <1>1, <4>1, <5>2
        <5> HIDE DEF d
        <5> QED
          BY <5>4, <5>5
      <4>2. CASE outgoing.opt = << >>
        <5>1. Options(query) = << >> /\ ~DoBit(query)
          BY <1>2, <4>2, OptionsOf
        <5>2. outgoing' = [outgoing EXCEPT !.opt = <<[do |-> setting.dnssec, options |-> A]>>]
          BY <1>1, <1>5, <2>1, <4>2, <5>1 DEF SetEdns0
        <5> QED
          BY <1>3, <5>1, <5>2
      <4> QED
        BY <4>1, <4>2
    <3> DEFINE e == [do |-> do, options |-> A]
    <3>2. e \in OptRecord /\ e.do = do /\ e.options = A
      BY <1>4, <3>1 DEF OptRecord
    <3>3. outgoing' = [outgoing EXCEPT !.opt = <<e>>]
      BY <3>1
    <3> HIDE DEF e
    <3>4. <<e>> \in Seq(OptRecord) /\ Len(<<e>>) = 1 /\ <<e>>[1] = e /\ <<e>> # << >>
      BY <3>2
    <3>5. /\ outgoing' \in [name : Seq(Character), opt : Seq(OptRecord)]
          /\ outgoing'.name = outgoing.name /\ outgoing'.opt = <<e>>
      BY <1>2, <3>3, <3>4
    <3>6. outgoing' \in Msg /\ Len(outgoing'.opt) = 1 /\ outgoing'.opt # << >>
      BY <3>4, <3>5, MessageIs
    <3>7. Options(outgoing') = A /\ (DoBit(outgoing') <=> do)
      <4>1. Len(outgoing'.opt) <= 1
        BY <3>6
      <4> QED
        BY <3>2, <3>4, <3>5, <3>6, <4>1, OptionsOf
    <3> QED
      BY <3>1, <3>5, <3>6, <3>7
  <2>2. CASE ~(outgoing.opt # << >> \/ setting.dnssec \/ setting.padding)
    <3>1. Options(query) = << >> /\ ~DoBit(query)
      BY <1>2, <2>2, OptionsOf
    <3>2. outgoing' = outgoing
      BY <1>1, <1>2, <2>2
    <3>3. Options(outgoing) = << >> /\ ~DoBit(outgoing)
      BY <1>2, <2>2, OptionsOf
    <3> QED
      BY <1>2, <1>5, <2>2, <3>1, <3>2, <3>3
  <2> QED
    BY <2>1, <2>2
<1>7. Stripped(outgoing')
  BY <1>2, <1>6, StrippedOnce DEF A
<1>8. SameQuestion(outgoing')
  BY <1>6 DEF PrepareInv, SameQuestion
<1>9. SameQuestion(outgoing)' /\ Stripped(outgoing)' /\ (DoBit(outgoing) <=> setting.dnssec \/ DoBit(query))'
  BY <1>1, <1>6, <1>7, <1>8 DEF SameQuestion, Stripped, DoBit
<1>10. PaddedToBlock'
  BY <1>1 DEF PaddedToBlock, Done
<1> QED
  BY <1>1, <1>6, <1>9, <1>10 DEF PrepareInv

LEMMA PadStep ==
    ASSUME PrepareInv, ApplyPadding PROVE PrepareInv'
<1> DEFINE base == MsgLen(WithPadding(outgoing, 0))
           B == BlockSize
           p == PadSize(outgoing)
           w == WithPadding(outgoing, p)
<1>1. /\ step = "pad" /\ step' = "done" /\ UNCHANGED <<setting, query>>
      /\ outgoing' = IF setting.padding THEN w ELSE outgoing
  BY DEF ApplyPadding
<1>2. /\ SameQuestion(outgoing) /\ Stripped(outgoing)
      /\ DoBit(outgoing) <=> setting.dnssec \/ DoBit(query)
      /\ outgoing \in Msg /\ Len(outgoing.opt) <= 1
  BY <1>1 DEF PrepareInv
<1>3. CASE ~setting.padding
  <2>1. outgoing' = outgoing
    BY <1>1, <1>3
  <2>2. PaddedToBlock'
    BY <1>1, <1>3 DEF PaddedToBlock
  <2>3. SameQuestion(outgoing)' /\ Stripped(outgoing)' /\ (DoBit(outgoing) <=> setting.dnssec \/ DoBit(query))'
    BY <1>1, <1>2, <2>1 DEF SameQuestion, Stripped, DoBit
  <2> QED
    BY <1>1, <2>1, <2>2, <2>3 DEF PrepareInv
<1>4. CASE setting.padding
  <2>1. outgoing.opt # << >>
    BY <1>1, <1>4 DEF PrepareInv
  <2>2. /\ WithOpt(outgoing) /\ Options(outgoing) = outgoing.opt[1].options
        /\ Options(outgoing) \in Seq(Option)
        /\ DoBit(outgoing) <=> outgoing.opt[1].do
    BY <1>2, <2>1, OptionsOf DEF WithOpt
  <2>3. base \in Nat
    BY <2>2, PaddedLength
  <2>4. B \in Nat \ {0}
    <3>1. setting.blockSize \in Int
      BY UpstreamQueryAssumption DEF PrepareInv, WellFormed
    <3> QED
      BY <3>1 DEF BlockSize
  <2>5. p = IF base % B = 0 THEN 0 ELSE B - (base % B)
    BY DEF PadSize
  <2> HIDE DEF base, B, p
  <2>6. p \in 0..(B - 1) /\ (base + p) % B = 0
    BY <2>3, <2>4, <2>5, PadFills
  <2>7. p \in Nat
    BY <2>4, <2>6
  <2>8. outgoing' = w
    BY <1>1, <1>4
  <2>9. /\ WithOpt(w) /\ w.name = outgoing.name /\ w.opt[1].do = outgoing.opt[1].do
        /\ w.opt[1].options = Padded(outgoing.opt[1].options, p)
    BY <2>2, <2>7, WithPaddingFacts
  <2>10. MsgLen(w) = base + p /\ MsgLen(WithPadding(w, 0)) = base
    BY <2>2, <2>7, PaddedLength DEF base
  <2> HIDE DEF w
  <2>11. /\ w \in Msg /\ Len(w.opt) <= 1
         /\ Options(w) = Padded(Options(outgoing), p)
         /\ DoBit(w) <=> DoBit(outgoing)
    <3>1. w \in Msg /\ Len(w.opt) = 1
      BY <2>9 DEF WithOpt
    <3>2. w.opt # << >> /\ Len(w.opt) <= 1
      BY <3>1
    <3>3. Options(w) = w.opt[1].options /\ (DoBit(w) <=> w.opt[1].do)
      BY <3>1, <3>2, OptionsOf
    <3> QED
      BY <2>2, <2>9, <3>1, <3>2, <3>3
  <2> DEFINE o == Options(outgoing)
             q == Options(w)
  <2>12. /\ WithoutCodes(q, {"padding"}) = WithoutCodes(o, {"padding"})
         /\ \E i \in DOMAIN q : {i} = {j \in DOMAIN q : q[j].code = "padding"}
    <3> DEFINE t == Padded(o, p)
    <3>1. o \in Seq(Option) /\ q = t
      BY <2>2, <2>11
    <3> HIDE DEF o, q
    <3>2. /\ WithoutCodes(t, {"padding"}) = WithoutCodes(o, {"padding"})
          /\ \E i \in DOMAIN t : {i} = {j \in DOMAIN t : t[j].code = "padding"}
      BY <2>7, <3>1, PaddedFacts
    <3> HIDE DEF t
    <3> QED
      BY <3>1, <3>2, Zenon
  <2>13. Stripped(w)
    <3>1. \A i \in DOMAIN q : q[i].code # "subnet"
      <4> DEFINE v == WithoutCodes(o, {"padding"})
      <4>1. v \in Seq(Option) /\ Padding(p) \in Option /\ Padding(p).code = "padding"
        BY <2>2, <2>7, WithoutCodesType, PaddingIs
      <4>2. \A j \in 1..Len(v) : v[j].code # "subnet"
        <5>1. v = WithoutCodes(Options(query), {"subnet", "padding"})
          BY <1>2 DEF Stripped
        <5>2. Options(query) \in Seq(Option)
          BY OptionsOf, UpstreamQueryAssumption DEF PrepareInv, WellFormed
        <5>3. \A j \in 1..Len(v) : v[j].code \notin {"subnet", "padding"}
          BY <5>1, <5>2, WithoutCodesType
        <5> QED
          BY <5>3
      <4>3. q = Append(v, Padding(p))
        BY <2>11 DEF Padded
      <4> HIDE DEF v, q
      <4>4. /\ DOMAIN q = 1..(Len(v) + 1) /\ Len(v) \in Nat
            /\ q[Len(v) + 1] = Padding(p) /\ \A j \in 1..Len(v) : q[j] = v[j]
        BY <4>1, <4>3, AppendProperties
      <4>5. ASSUME NEW i \in 1..(Len(v) + 1) PROVE q[i].code # "subnet"
        <5>1. CASE i = Len(v) + 1
          BY <4>1, <4>4, <5>1
        <5>2. CASE i # Len(v) + 1
          <6>1. i \in 1..Len(v)
            BY <4>4, <5>2
          <6> QED
            BY <4>2, <4>4, <6>1
        <5> QED
          BY <5>1, <5>2
      <4> QED
        BY <4>4, <4>5
    <3> QED
      BY <1>2, <2>12, <3>1 DEF Stripped
  <2>14. SameQuestion(w)
    BY <1>2, <2>9 DEF SameQuestion
  <2>15. SameQuestion(outgoing)' /\ Stripped(outgoing)' /\ (DoBit(outgoing) <=> setting.dnssec \/ DoBit(query))'
    BY <1>1, <1>2, <2>8, <2>11, <2>13, <2>14 DEF SameQuestion, Stripped, DoBit
  <2>16. PaddedToBlock'
    <3>1. B' = B
      BY <1>1 DEF B, BlockSize
    <3>2. /\ MsgLen(w) % B = 0
          /\ MsgLen(w) - MsgLen(WithPadding(w, 0)) < B
      BY <2>3, <2>4, <2>6, <2>7, <2>10
    <3> QED
      BY <2>8, <2>12, <3>1, <3>2 DEF PaddedToBlock, B
  <2> QED
    BY <1>1, <2>8, <2>11, <2>15, <2>16 DEF PrepareInv
<1> QED
  BY <1>3, <1>4

LEMMA PreparedNext == PrepareInv /\ [PrepareNext]_prepareVars => PrepareInv'
<1> SUFFICES ASSUME PrepareInv, [PrepareNext]_prepareVars PROVE PrepareInv'
  OBVIOUS
<1>1. CASE UNCHANGED prepareVars
  <2>1. UNCHANGED <<setting, query, outgoing, step>>
    BY <1>1 DEF prepareVars
  <2> QED
    BY <2>1 DEF PrepareInv, SameQuestion, DoBit, Stripped, PaddedToBlock, Done, BlockSize
<1> QED
  BY <1>1, RandomizeStep, EdnsStep, PadStep DEF PrepareNext

(* The invariant of the preparation holds in every reachable state. *)
THEOREM PrepareInvariance == PrepareSpec => []PrepareInv
<1>1. PrepareInit => PrepareInv
  BY PreparedFirst
<1> QED
  BY <1>1, PreparedNext, PTL DEF PrepareSpec

(* What goes upstream is the client's question, for names and options of   *)
(* any number: no client subnet, every other option in its order, DO kept  *)
(* or added, only letters changed and only in case; and the random bytes   *)
(* suffice for every name.                                                 *)
THEOREM UpstreamLosesOnlySubnet == PrepareSpec => []OnlySubnetLost
<1>1. PrepareInv => OnlySubnetLost
  BY DEF PrepareInv, SameQuestion, DoBit, Stripped, OnlySubnetLost, Done
<1> QED
  BY <1>1, PrepareInvariance, PTL

(* A padded query is a whole number of blocks long, with one padding       *)
(* option, and not a block longer than needed, for any block size.         *)
THEOREM UpstreamPaddedToBlock == PrepareSpec => []PaddedToBlock
<1>1. PrepareInv => PaddedToBlock
  BY DEF PrepareInv
<1> QED
  BY <1>1, PrepareInvariance, PTL
=============================================================================
