-------------------------- MODULE LightToggleProofs --------------------------
(***************************************************************************)
(* The properties of Polling, for any number of targets, changes and       *)
(* requests, and of the round trip of a light, for any number of clicks,   *)
(* polls, failures and switches by others.                                 *)
(*                                                                         *)
(* An answer is shown only if its request was the last to start.  The      *)
(* invariant of Polling says what that buys: when the last request         *)
(* started, whatever is shown now was already shown, so what the server    *)
(* reads for it is at least as new; and once the effect has run for the    *)
(* current target the last request is for that target.                     *)
(*                                                                         *)
(* Every step of LightToggle is a step of Polling or leaves its variables  *)
(* alone, so the same holds of its page.  After a click made at rest,      *)
(* every command and report asks for what the click wanted, so the row     *)
(* changes at most once, and a snapshot that may still be shown is from    *)
(* before or after that one change.                                        *)
(***************************************************************************)
EXTENDS LightToggle, TLAPS

-----------------------------------------------------------------------------
(***************************************************************************)
(* Polling.                                                                *)
(***************************************************************************)
\* What has been read or shown has been on the server.
ReadsArePast ==
    /\ \A r \in inflight : r.snapshot # Unread => r.snapshot <= version[r.target]
    /\ view # NoData => view.version <= version[view.target]

\* The one answer that may still be shown is no older than what is shown.
LastIsNewest ==
    \A r \in inflight :
        r.id = latest /\ r.snapshot # Unread /\ view # NoData /\ view.target = r.target
            => view.version <= r.snapshot

\* The one answer that may still be shown is for the current target.
LastIsOfTheTarget ==
    effect = fetcher => \A r \in inflight : r.id = latest => r.target = fetcher

PollingInv ==
    /\ TypeOK
    /\ ReadsArePast
    /\ LastIsNewest
    /\ LastIsOfTheTarget
    /\ LoadedDataIsOfTheTarget

\* The view is a record only when there is data.
LEMMA ViewFacts ==
    ASSUME TypeOK, view # NoData
    PROVE  view.target \in Target /\ view.version \in 0..MaxVersion
BY DEF TypeOK

LEMMA RequestFacts ==
    ASSUME TypeOK, NEW r \in inflight
    PROVE  /\ r \in Request
           /\ r.id \in Nat /\ r.id <= latest
           /\ r.target \in Target
           /\ r.snapshot # Unread => r.snapshot \in 0..MaxVersion
BY PollingAssumption DEF TypeOK, Request

LEMMA InitInv == Init => PollingInv
<1> SUFFICES ASSUME Init PROVE PollingInv
  OBVIOUS
<1>1. TypeOK
  <2>1. 0 \in 0..MaxVersion /\ 0 \in 0..MaxRequest
    BY PollingAssumption
  <2>2. version \in [Target -> 0..MaxVersion]
    BY <2>1 DEF Init
  <2> QED BY <2>1, <2>2 DEF Init, TypeOK
<1>2. ReadsArePast /\ LastIsNewest /\ LastIsOfTheTarget
  BY DEF Init, ReadsArePast, LastIsNewest, LastIsOfTheTarget
<1>3. LoadedDataIsOfTheTarget
  BY DEF Init, LoadedDataIsOfTheTarget
<1> QED BY <1>1, <1>2, <1>3 DEF PollingInv

\* A new request is the last one, and the server has not read for it yet.
LEMMA StartFacts ==
    ASSUME PollingInv, StartRequest
    PROVE  /\ latest' = latest + 1 /\ latest' \in 1..MaxRequest
           /\ \A r \in inflight' :
                 \/ r \in inflight /\ r.id <= latest /\ r.id \in Nat
                 \/ /\ r.id = latest' /\ r.target = fetcher /\ r.snapshot = Unread
                    /\ r = [id |-> latest', target |-> fetcher, snapshot |-> Unread]
           /\ inflight' \subseteq Request
           /\ \A r \in inflight' : r.id <= latest'
           /\ \A r, s \in inflight' : r.id = s.id => r = s
<1>1. /\ latest' = latest + 1 /\ latest' \in 1..MaxRequest /\ latest \in Nat
      /\ fetcher \in Target
  BY PollingAssumption DEF PollingInv, TypeOK, StartRequest, NextRequestId
<1>2. \A r \in inflight : r \in Request /\ r.id <= latest /\ r.id \in Nat
  BY RequestFacts DEF PollingInv
<1> DEFINE new == [id |-> latest', target |-> fetcher, snapshot |-> Unread]
<1>3. inflight' = inflight \cup {new}
  BY DEF StartRequest, NextRequestId
<1>4. /\ new \in Request /\ new.id = latest' /\ new.target = fetcher
      /\ new.snapshot = Unread
  BY <1>1 DEF Request
<1> HIDE DEF new
<1>5. \A r \in inflight' : \/ r \in inflight /\ r.id <= latest /\ r.id \in Nat
                           \/ r = new
  BY <1>2, <1>3
<1>6. \A r \in inflight' : r.id <= latest'
  BY <1>1, <1>4, <1>5
<1>7. \A r, s \in inflight' : r.id = s.id => r = s
  <2>1. \A r, s \in inflight : r.id = s.id => r = s
    BY DEF PollingInv, TypeOK
  <2> QED BY <1>1, <1>4, <1>5, <2>1
<1>8. inflight' \subseteq Request
  BY <1>2, <1>3, <1>4
<1> QED BY <1>1, <1>4, <1>5, <1>6, <1>7, <1>8 DEF new

LEMMA RunEffectInv ==
    ASSUME PollingInv, RunEffect
    PROVE  PollingInv'
<1>1. /\ effect' = fetcher' /\ fetcher' = fetcher /\ loading' = TRUE
      /\ version' = version /\ view' = view /\ error' = error /\ StartRequest
  BY DEF RunEffect
<1>2. TypeOK'
  BY <1>1, StartFacts DEF PollingInv, TypeOK
<1>3. ReadsArePast'
  BY <1>1, StartFacts DEF PollingInv, ReadsArePast
<1>4. LastIsNewest'
  BY <1>1, StartFacts DEF PollingInv, LastIsNewest, TypeOK
<1>5. LastIsOfTheTarget'
  BY <1>1, StartFacts DEF PollingInv, LastIsOfTheTarget, TypeOK
<1>6. LoadedDataIsOfTheTarget'
  BY <1>1 DEF LoadedDataIsOfTheTarget
<1> QED BY <1>2, <1>3, <1>4, <1>5, <1>6 DEF PollingInv

LEMMA RefreshInv ==
    ASSUME PollingInv, Refresh
    PROVE  PollingInv'
<1>1. /\ effect' = effect /\ fetcher' = fetcher /\ loading' = loading
      /\ version' = version /\ view' = view /\ error' = error /\ StartRequest
  BY DEF Refresh
<1>2. TypeOK'
  BY <1>1, StartFacts DEF PollingInv, TypeOK
<1>3. ReadsArePast'
  BY <1>1, StartFacts DEF PollingInv, ReadsArePast
<1>4. LastIsNewest'
  BY <1>1, StartFacts DEF PollingInv, LastIsNewest, TypeOK
<1>5. LastIsOfTheTarget'
  BY <1>1, StartFacts DEF PollingInv, LastIsOfTheTarget, TypeOK
<1>6. LoadedDataIsOfTheTarget'
  BY <1>1 DEF PollingInv, LoadedDataIsOfTheTarget
<1> QED BY <1>2, <1>3, <1>4, <1>5, <1>6 DEF PollingInv

LEMMA RenderInv ==
    ASSUME PollingInv, NEW t \in Target, Render(t)
    PROVE  PollingInv'
<1>1. /\ effect = fetcher /\ fetcher' = t /\ effect' = effect
      /\ UNCHANGED <<version, latest, inflight, view, error, loading>>
  BY DEF Render
<1>2. TypeOK' /\ ReadsArePast' /\ LastIsNewest'
  BY <1>1 DEF PollingInv, TypeOK, ReadsArePast, LastIsNewest
<1>3. LastIsOfTheTarget' /\ LoadedDataIsOfTheTarget'
  BY <1>1 DEF PollingInv, LastIsOfTheTarget, LoadedDataIsOfTheTarget
<1> QED BY <1>2, <1>3 DEF PollingInv

LEMMA ChangeInv ==
    ASSUME PollingInv, NEW t \in Target, ServerChanges(t)
    PROVE  PollingInv'
<1>1. /\ version' = [version EXCEPT ![t] = @ + 1] /\ version[t] < MaxVersion
      /\ UNCHANGED <<fetcher, effect, latest, inflight, view, error, loading>>
  BY DEF ServerChanges
<1>2. version \in [Target -> 0..MaxVersion] /\ MaxVersion \in Nat
  BY PollingAssumption DEF PollingInv, TypeOK
<1>3. /\ version' \in [Target -> 0..MaxVersion]
      /\ \A s \in Target : version[s] <= version'[s]
  BY <1>1, <1>2
<1>4. TypeOK'
  BY <1>1, <1>3 DEF PollingInv, TypeOK
<1>5. ReadsArePast'
  <2>1. ASSUME NEW r \in inflight, r.snapshot # Unread
        PROVE  r.snapshot <= version'[r.target]
    <3>1. r.target \in Target /\ r.snapshot \in Nat /\ r.snapshot <= version[r.target]
      BY <2>1, RequestFacts DEF PollingInv, ReadsArePast
    <3> QED BY <1>2, <1>3, <3>1
  <2>2. ASSUME view # NoData PROVE view.version <= version'[view.target]
    <3>1. view.target \in Target /\ view.version \in Nat
          /\ view.version <= version[view.target]
      BY <2>2, ViewFacts DEF PollingInv, ReadsArePast
    <3> QED BY <1>2, <1>3, <3>1
  <2> QED BY <1>1, <2>1, <2>2 DEF ReadsArePast
<1>6. LastIsNewest' /\ LastIsOfTheTarget' /\ LoadedDataIsOfTheTarget'
  BY <1>1 DEF PollingInv, LastIsNewest, LastIsOfTheTarget, LoadedDataIsOfTheTarget
<1> QED BY <1>4, <1>5, <1>6 DEF PollingInv

LEMMA ReadInv ==
    ASSUME PollingInv, NEW r \in inflight, ServerReads(r)
    PROVE  PollingInv'
<1> DEFINE read == [r EXCEPT !.snapshot = version[r.target]]
<1>1. /\ inflight' = (inflight \ {r}) \cup {read}
      /\ UNCHANGED <<version, fetcher, effect, latest, view, error, loading>>
  BY DEF ServerReads
<1>2. r \in Request /\ version \in [Target -> 0..MaxVersion] /\ r.id <= latest
  BY DEF PollingInv, TypeOK
<1>3. /\ read \in Request /\ read.id = r.id /\ read.target = r.target
      /\ read.snapshot = version[r.target] /\ read.snapshot \in 0..MaxVersion
      /\ r.target \in Target
  BY <1>2 DEF Request
<1> HIDE DEF read
<1>4. TypeOK'
  BY <1>1, <1>2, <1>3 DEF PollingInv, TypeOK
<1>5. ReadsArePast'
  BY <1>1, <1>3, PollingAssumption DEF PollingInv, ReadsArePast
<1>6. LastIsNewest'
  BY <1>1, <1>3 DEF PollingInv, ReadsArePast, LastIsNewest
<1>7. LastIsOfTheTarget' /\ LoadedDataIsOfTheTarget'
  BY <1>1, <1>3 DEF PollingInv, LastIsOfTheTarget, LoadedDataIsOfTheTarget
<1> QED BY <1>4, <1>5, <1>6, <1>7 DEF PollingInv

LEMMA RespondInv ==
    ASSUME PollingInv, NEW r \in inflight, Responds(r)
    PROVE  PollingInv'
<1>1. /\ inflight' = inflight \ {r} /\ r.snapshot # Unread
      /\ UNCHANGED <<version, fetcher, effect, latest>>
  BY DEF Responds
<1>2. CASE r.id = latest
  <2>1. /\ view' = [target |-> r.target, version |-> r.snapshot]
        /\ error' = FALSE /\ loading' = FALSE
    BY <1>2 DEF Responds, MayWrite
  <2>2. r.target \in Target /\ r.snapshot \in 0..MaxVersion
    BY <1>1, RequestFacts DEF PollingInv
  <2>3. view'.target = r.target /\ view'.version = r.snapshot
    BY <2>1
  <2>4. TypeOK'
    BY <1>1, <2>1, <2>2 DEF PollingInv, TypeOK
  <2>5. \A s \in inflight' : s.id # latest'
    BY <1>1, <1>2 DEF PollingInv, TypeOK
  <2>6. ReadsArePast'
    BY <1>1, <2>3 DEF PollingInv, ReadsArePast
  <2>7. LastIsNewest' /\ LastIsOfTheTarget'
    BY <2>5 DEF LastIsNewest, LastIsOfTheTarget
  <2>8. LoadedDataIsOfTheTarget'
    BY <1>1, <1>2, <2>3 DEF PollingInv, LastIsOfTheTarget, LoadedDataIsOfTheTarget
  <2> QED BY <2>4, <2>6, <2>7, <2>8 DEF PollingInv
<1>3. CASE r.id # latest
  <2>1. UNCHANGED <<view, error, loading>>
    BY <1>3 DEF Responds, MayWrite
  <2>2. TypeOK' /\ ReadsArePast' /\ LastIsNewest'
    BY <1>1, <2>1 DEF PollingInv, TypeOK, ReadsArePast, LastIsNewest
  <2>3. LastIsOfTheTarget' /\ LoadedDataIsOfTheTarget'
    BY <1>1, <2>1 DEF PollingInv, LastIsOfTheTarget, LoadedDataIsOfTheTarget
  <2> QED BY <2>2, <2>3 DEF PollingInv
<1> QED BY <1>2, <1>3

LEMMA FailInv ==
    ASSUME PollingInv, NEW r \in inflight, Fails(r)
    PROVE  PollingInv'
<1>1. /\ inflight' = inflight \ {r}
      /\ UNCHANGED <<version, fetcher, effect, latest, view>>
      /\ \/ error' = TRUE /\ loading' = FALSE
         \/ UNCHANGED <<error, loading>>
  BY DEF Fails
<1>2. TypeOK' /\ ReadsArePast' /\ LastIsNewest'
  BY <1>1 DEF PollingInv, TypeOK, ReadsArePast, LastIsNewest
<1>3. LastIsOfTheTarget' /\ LoadedDataIsOfTheTarget'
  BY <1>1 DEF PollingInv, LastIsOfTheTarget, LoadedDataIsOfTheTarget
<1> QED BY <1>2, <1>3 DEF PollingInv

LEMMA NextInv == PollingInv /\ [Next]_vars => PollingInv'
<1>1. PollingInv /\ UNCHANGED vars => PollingInv'
  BY DEF PollingInv, TypeOK, ReadsArePast, LastIsNewest, LastIsOfTheTarget,
         LoadedDataIsOfTheTarget, vars
<1> QED BY <1>1, RunEffectInv, RefreshInv, RenderInv, ChangeInv, ReadInv, RespondInv,
           FailInv DEF Next

\* The invariant holds throughout.
THEOREM Invariance == Spec => []PollingInv
<1> QED BY InitInv, NextInv, PTL DEF Spec

\* Requests keep distinct numbers that were handed out.
THEOREM TypeCorrect == Spec => []TypeOK
<1>1. PollingInv => TypeOK
  BY DEF PollingInv
<1> QED BY <1>1, Invariance, PTL

\* Data shown as loaded and without an error is the current target's.
THEOREM LoadedDataIsRight == Spec => []LoadedDataIsOfTheTarget
<1>1. PollingInv => LoadedDataIsOfTheTarget
  BY DEF PollingInv
<1> QED BY <1>1, Invariance, PTL

LEMMA ViewStep ==
    ASSUME PollingInv, [Next]_vars
    PROVE  [View!Next]_(View!viewVars)
<1>1. ASSUME NEW t \in Target, ServerChanges(t) PROVE View!Change(t)
  BY <1>1 DEF ServerChanges, View!Change
<1>2. ASSUME NEW r \in inflight, Responds(r), r.id = latest
      PROVE  \E t \in Target : \E v \in 0..version[t] : View!Show(t, v)
  <2>1. r.snapshot # Unread /\ version' = version
        /\ view' = [target |-> r.target, version |-> r.snapshot]
    BY <1>2 DEF Responds, MayWrite
  <2>2. r.target \in Target /\ r.snapshot \in 0..MaxVersion
        /\ r.snapshot <= version[r.target] /\ version[r.target] \in 0..MaxVersion
    BY <2>1, RequestFacts DEF PollingInv, ReadsArePast, TypeOK
  <2>3. r.snapshot \in 0..version[r.target]
    BY <2>2, PollingAssumption
  <2>4. view # NoData /\ view.target = r.target => view.version <= r.snapshot
    BY <1>2, <2>1 DEF PollingInv, LastIsNewest
  <2>5. View!Show(r.target, r.snapshot)
    BY <2>1, <2>4 DEF View!Show
  <2> QED BY <2>2, <2>3, <2>5
<1>3. ASSUME UNCHANGED <<version, view>> PROVE UNCHANGED View!viewVars
  BY <1>3 DEF View!viewVars
<1>4. CASE \E t \in Target : ServerChanges(t)
  BY <1>1, <1>4 DEF View!Next
<1>5. CASE \E r \in inflight : Responds(r)
  <2>1. PICK r \in inflight : Responds(r)
    BY <1>5
  <2>2. CASE r.id = latest
    BY <1>2, <2>1, <2>2 DEF View!Next
  <2>3. CASE r.id # latest
    BY <1>3, <2>1, <2>3 DEF Responds, MayWrite
  <2> QED BY <2>2, <2>3
<1>6. CASE \/ RunEffect
           \/ Refresh
           \/ \E t \in Target : Render(t)
           \/ \E r \in inflight : ServerReads(r) \/ Fails(r)
           \/ UNCHANGED vars
  BY <1>3, <1>6 DEF RunEffect, Refresh, Render, ServerReads, Fails, vars
<1> QED BY <1>4, <1>5, <1>6 DEF Next

\* The hook implements the monotonic view: no answer takes a page back to an older
\* state than it has shown.
THEOREM ImplementsMonotonicView == Spec => ViewSpec
<1>1. Init => View!Init
  BY DEF Init, View!Init
<1>2. PollingInv /\ [Next]_vars => [View!Next]_(View!viewVars)
  BY ViewStep
<1> QED BY <1>1, <1>2, Invariance, PTL DEF Spec, ViewSpec, View!Spec

-----------------------------------------------------------------------------
(***************************************************************************)
(* The light.                                                              *)
(***************************************************************************)
\* Only what the last click wanted is on its way.
SentIsWanted ==
    /\ \A i \in DOMAIN commands : commands[i] = wanted
    /\ \A i \in DOMAIN reports : reports[i] = wanted
    /\ InStep("posting") => sending.on = wanted

\* The page is up to date and shows the intent, or a row that agrees with it.
UpToDate ==
    /\ version[Lamp] = view.version
    /\ optimistic = wanted \/ (optimistic = NoIntent /\ (RowOn <=> wanted))

\* The row has followed the click and the page has not seen it yet.
OneBehind ==
    /\ version[Lamp] = view.version + 1
    /\ optimistic = wanted
    /\ RowOn <=> wanted

LoneInv ==
    /\ wanted \in BOOLEAN
    /\ atRest \in BOOLEAN
    /\ atRest => view # NoData /\ SentIsWanted /\ (UpToDate \/ OneBehind)

LightInv == PollingInv /\ LightTypeOK /\ LoneInv

\* Every step is a step of the hook, as far as the hook's variables go.
LEMMA PollingStep == [LightNext]_lightVars => [Next]_vars
<1>1. UNCHANGED lightVars => UNCHANGED vars
  BY DEF lightVars, pollingVars
<1>2. Toggle \/ SendCommand \/ CommandFails \/ LightObeys \/ LightMisses
         \/ SomeoneSwitches \/ ReportLost => UNCHANGED vars
  BY DEF Toggle, SendCommand, CommandFails, LightObeys, LightMisses, SomeoneSwitches,
         ReportLost, pollingVars
<1>3. CommandAccepted \/ Poll => Refresh
  BY DEF CommandAccepted, Poll
<1>4. Mount => RunEffect
  BY DEF Mount
<1>5. \A r \in inflight : /\ BackendReads(r) => ServerReads(r)
                          /\ AnswerArrives(r) => Responds(r)
                          /\ RequestFails(r) => Fails(r)
  BY DEF BackendReads, AnswerArrives, RequestFails
<1>6. ConsumeReport => (\E t \in Target : ServerChanges(t)) \/ UNCHANGED vars
  <2>1. ASSUME ConsumeReport PROVE ServerChanges(Lamp) \/ UNCHANGED vars
    BY <2>1 DEF ConsumeReport, pollingVars
  <2> QED BY <2>1, LightAssumption
<1> QED BY <1>1, <1>2, <1>3, <1>4, <1>5, <1>6 DEF LightNext, Next

LEMMA LightInitInv == LightInit => LightInv
<1> SUFFICES ASSUME LightInit PROVE LightInv
  OBVIOUS
<1>1. PollingInv
  BY InitInv DEF LightInit
<1>2. LightTypeOK
  <2>1. TypeOK
    BY <1>1 DEF PollingInv
  <2>2. light \in BOOLEAN /\ optimistic = NoIntent /\ sending = Ready
    BY DEF LightInit
  <2>3. commands \in Seq(BOOLEAN) /\ reports \in Seq(BOOLEAN)
    BY DEF LightInit
  <2> QED BY <2>1, <2>2, <2>3 DEF LightTypeOK
<1>3. LoneInv
  BY DEF LightInit, LoneInv
<1> QED BY <1>1, <1>2, <1>3 DEF LightInv

(***************************************************************************)
(* Types.                                                                  *)
(***************************************************************************)
\* What handleToggle is about to send.
LEMMA PostingFacts ==
    ASSUME LightTypeOK, InStep("posting")
    PROVE  sending \in [step : {"posting", "handled"}, on : BOOLEAN]
BY DEF LightTypeOK, InStep

\* The types after a step that leaves what is on its way alone.
LEMMA TypeFrame ==
    ASSUME LightTypeOK, TypeOK', UNCHANGED <<worldVars, optimistic>>,
           view # NoData => view' # NoData,
           \/ sending' = Ready
           \/ sending' = sending
           \/ sending' \in [step : {"refreshing"}, id : 1..latest'],
           latest <= latest'
    PROVE  LightTypeOK'
<1>1. latest \in Nat /\ latest' \in Nat
  BY PollingAssumption DEF LightTypeOK, TypeOK
<1>2. sending \in [step : {"refreshing"}, id : 1..latest]
          => sending \in [step : {"refreshing"}, id : 1..latest']
  BY <1>1
<1> QED BY <1>2 DEF LightTypeOK, worldVars

\* A queue of commands or reports keeps its type.
LEMMA QueueFacts ==
    ASSUME NEW q \in Seq(BOOLEAN)
    PROVE  /\ \A b \in BOOLEAN : Append(q, b) \in Seq(BOOLEAN)
           /\ q # <<>> => Head(q) \in BOOLEAN /\ Tail(q) \in Seq(BOOLEAN)
OBVIOUS

\* The switch shows ON or OFF.
LEMMA ShownFacts ==
    ASSUME LightTypeOK
    PROVE  Shown \in BOOLEAN /\ (~Shown) \in BOOLEAN
<1>1. Shown \in BOOLEAN
  <2>1. CASE optimistic # NoIntent
    BY <2>1 DEF Shown, LightTypeOK
  <2>2. CASE optimistic = NoIntent
    <3>1. ViewOn \in BOOLEAN
      BY DEF ViewOn
    <3> QED BY <2>2, <3>1 DEF Shown
  <2> QED BY <2>1, <2>2
<1> QED BY <1>1

\* What Append, Head and Tail leave of a queue that holds only w.
LEMMA OnlyFacts ==
    ASSUME NEW q \in Seq(BOOLEAN), NEW w \in BOOLEAN, \A i \in DOMAIN q : q[i] = w
    PROVE  /\ \A i \in DOMAIN Append(q, w) : Append(q, w)[i] = w
           /\ q # <<>> => Head(q) = w /\ \A i \in DOMAIN Tail(q) : Tail(q)[i] = w
OBVIOUS

LEMMA TypeStep ==
    ASSUME LightTypeOK, TypeOK', LightNext
    PROVE  LightTypeOK'
<1>1. ASSUME Toggle PROVE LightTypeOK'
  <2>1. /\ UNCHANGED <<light, commands, reports, latest, view>> /\ view # NoData
        /\ optimistic' = ~Shown /\ sending' = [step |-> "posting", on |-> ~Shown]
    BY <1>1 DEF Toggle, pollingVars, worldVars, vars
  <2>2. (~Shown) \in BOOLEAN
    BY ShownFacts
  <2>3. sending' \in [step : {"posting", "handled"}, on : BOOLEAN]
    BY <2>1, <2>2
  <2>4. optimistic' \in BOOLEAN \cup {NoIntent}
    BY <2>1, <2>2
  <2> QED BY <2>1, <2>3, <2>4 DEF LightTypeOK
<1>2. ASSUME SendCommand PROVE LightTypeOK'
  <2>1. /\ UNCHANGED <<light, reports, optimistic, view, latest>>
        /\ commands' = Append(commands, sending.on)
        /\ sending' = [sending EXCEPT !.step = "handled"]
        /\ InStep("posting")
    BY <1>2 DEF SendCommand, PayloadOf, pollingVars, vars
  <2>2. sending \in [step : {"posting", "handled"}, on : BOOLEAN]
    BY <2>1, PostingFacts
  <2>3. sending' \in [step : {"posting", "handled"}, on : BOOLEAN]
    BY <2>1, <2>2
  <2>4. commands' \in Seq(BOOLEAN)
    BY <2>1, <2>2, QueueFacts DEF LightTypeOK
  <2> QED BY <2>1, <2>3, <2>4 DEF LightTypeOK
<1>3. ASSUME CommandAccepted PROVE LightTypeOK'
  <2>1. /\ UNCHANGED <<worldVars, optimistic, view>>
        /\ sending' = [step |-> "refreshing", id |-> latest']
        /\ latest' = latest + 1 /\ latest \in Nat
    BY <1>3, PollingAssumption
       DEF CommandAccepted, Refresh, StartRequest, NextRequestId, LightTypeOK, TypeOK
  <2>2. sending' \in [step : {"refreshing"}, id : 1..latest'] /\ latest <= latest'
    BY <2>1
  <2> QED BY <2>1, <2>2, TypeFrame
<1>4. ASSUME CommandFails \/ Mount \/ Poll PROVE LightTypeOK'
  <2>1. latest \in Nat
    BY PollingAssumption DEF LightTypeOK, TypeOK
  <2>2. /\ UNCHANGED <<worldVars, optimistic, view>>
        /\ sending' = sending \/ sending' = Ready
        /\ latest <= latest'
    BY <1>4, <2>1 DEF CommandFails, Mount, Poll, RunEffect, Refresh, StartRequest,
                      NextRequestId, pollingVars, vars, pageVars
  <2> QED BY <2>2, TypeFrame
<1>5. ASSUME NEW r \in inflight, BackendReads(r) \/ RequestFails(r) PROVE LightTypeOK'
  <2>1. latest \in Nat
    BY PollingAssumption DEF LightTypeOK, TypeOK
  <2>2. /\ UNCHANGED <<worldVars, optimistic, view, latest>>
        /\ sending' = sending \/ sending' = Ready
    BY <1>5 DEF BackendReads, RequestFails, ServerReads, Fails, AfterRefresh, pageVars
  <2> QED BY <2>1, <2>2, TypeFrame
<1>6. ASSUME NEW r \in inflight, AnswerArrives(r) PROVE LightTypeOK'
  <2>1. /\ UNCHANGED <<worldVars, latest>>
        /\ sending' = sending \/ sending' = Ready
        /\ optimistic' = optimistic \/ optimistic' = NoIntent
        /\ \/ view' = view
           \/ view' = [target |-> r.target, version |-> r.snapshot] /\ r.snapshot # Unread
    BY <1>6 DEF AnswerArrives, Responds, AfterRefresh, Settled
  <2>2. TypeOK
    BY DEF LightTypeOK
  <2>3. r.target \in Target /\ (r.snapshot # Unread => r.snapshot \in Nat)
    BY <2>2, RequestFacts
  <2>4. view # NoData => view' # NoData
    BY <2>1, <2>3, PollingAssumption
  <2> QED BY <2>1, <2>4 DEF LightTypeOK, worldVars
<1>7. ASSUME LightObeys PROVE LightTypeOK'
  <2>1. /\ UNCHANGED <<optimistic, sending, view, latest>> /\ commands # <<>>
        /\ light' = Head(commands) /\ commands' = Tail(commands)
        /\ reports' = Append(reports, light')
    BY <1>7 DEF LightObeys, pollingVars, vars, pageVars
  <2>2. light' \in BOOLEAN /\ commands' \in Seq(BOOLEAN) /\ reports' \in Seq(BOOLEAN)
    BY <2>1, QueueFacts DEF LightTypeOK
  <2> QED BY <2>1, <2>2 DEF LightTypeOK
<1>8. ASSUME LightMisses PROVE LightTypeOK'
  <2>1. /\ UNCHANGED <<light, reports, optimistic, sending, view, latest>>
        /\ commands # <<>> /\ commands' = Tail(commands)
    BY <1>8 DEF LightMisses, pollingVars, vars, pageVars
  <2>2. commands' \in Seq(BOOLEAN)
    BY <2>1, QueueFacts DEF LightTypeOK
  <2> QED BY <2>1, <2>2 DEF LightTypeOK
<1>9. ASSUME SomeoneSwitches PROVE LightTypeOK'
  <2>1. /\ UNCHANGED <<commands, optimistic, sending, view, latest>>
        /\ light' = ~light /\ reports' = Append(reports, light')
    BY <1>9 DEF SomeoneSwitches, pollingVars, vars, pageVars
  <2>2. light' \in BOOLEAN
    BY <2>1
  <2>3. reports' \in Seq(BOOLEAN)
    BY <2>1, <2>2, QueueFacts DEF LightTypeOK
  <2> QED BY <2>1, <2>2, <2>3 DEF LightTypeOK
<1>10. ASSUME ConsumeReport \/ ReportLost PROVE LightTypeOK'
  <2>1. /\ UNCHANGED <<light, commands, optimistic, sending, view, latest>>
        /\ reports # <<>> /\ reports' = Tail(reports)
    BY <1>10 DEF ConsumeReport, ReportLost, ServerChanges, pollingVars, vars, pageVars
  <2>2. reports' \in Seq(BOOLEAN)
    BY <2>1, QueueFacts DEF LightTypeOK
  <2> QED BY <2>1, <2>2 DEF LightTypeOK
<1> QED BY <1>1, <1>2, <1>3, <1>4, <1>5, <1>6, <1>7, <1>8, <1>9, <1>10 DEF LightNext

(***************************************************************************)
(* The click made at rest.                                                 *)
(***************************************************************************)
\* A step that touches nothing the click depends on.
LEMMA LoneFrame ==
    ASSUME LoneInv, UNCHANGED <<version, view, commands, reports, optimistic, wanted, atRest>>,
           sending' = sending \/ ~InStep("posting")'
    PROVE  LoneInv'
<1>1. ASSUME atRest PROVE SentIsWanted'
  BY <1>1 DEF LoneInv, SentIsWanted, InStep
<1>2. ASSUME atRest PROVE UpToDate \/ OneBehind => UpToDate' \/ OneBehind'
  BY DEF UpToDate, OneBehind, RowOn
<1> QED BY <1>1, <1>2 DEF LoneInv

\* One change turns the row.
LEMMA Parity == ASSUME NEW n \in Nat PROVE (n + 1) % 2 = 1 <=> n % 2 # 1
OBVIOUS

\* What atRest says, at the only target there is.
LEMMA LoneFacts ==
    ASSUME LightInv, atRest
    PROVE  /\ wanted \in BOOLEAN /\ view # NoData /\ SentIsWanted
           /\ UpToDate \/ OneBehind
           /\ view.version \in Nat /\ version[Lamp] \in Nat /\ Lamp \in Target
           /\ view.target = Lamp
           /\ commands \in Seq(BOOLEAN) /\ reports \in Seq(BOOLEAN)
<1>1. view # NoData /\ TypeOK
  BY DEF LightInv, LoneInv, PollingInv
<1>2. view.target \in Target /\ view.version \in 0..MaxVersion
  BY <1>1, ViewFacts
<1>3. Lamp \in Target /\ (\A t \in Target : t = Lamp)
  BY LightAssumption
<1>4. version[Lamp] \in 0..MaxVersion
  BY <1>1, <1>3 DEF TypeOK
<1> QED BY <1>1, <1>2, <1>3, <1>4, PollingAssumption DEF LightInv, LoneInv, LightTypeOK

LEMMA ToggleLone ==
    ASSUME LightInv, Toggle
    PROVE  LoneInv'
<1>1. /\ view # NoData /\ UNCHANGED <<version, view, commands, reports>>
      /\ optimistic' = ~Shown /\ wanted' = ~Shown
      /\ sending' = [step |-> "posting", on |-> ~Shown]
      /\ atRest' = (commands = <<>> /\ reports = <<>> /\ view.version = version[Lamp])
  BY DEF Toggle, pollingVars, worldVars, vars
<1>2. wanted' \in BOOLEAN /\ optimistic' = wanted' /\ sending'.on = wanted'
  BY <1>1, ShownFacts DEF LightInv
<1>3. atRest' \in BOOLEAN
  BY <1>1
<1>4. ASSUME atRest'
      PROVE  commands' = <<>> /\ reports' = <<>> /\ version'[Lamp] = view'.version
             /\ view' # NoData
  BY <1>1, <1>4
<1>5. ASSUME atRest' PROVE SentIsWanted' /\ UpToDate'
  BY <1>2, <1>4, <1>5 DEF SentIsWanted, UpToDate
<1> QED BY <1>2, <1>3, <1>4, <1>5 DEF LoneInv

LEMMA SendLone ==
    ASSUME LightInv, SendCommand
    PROVE  LoneInv'
<1>1. /\ InStep("posting") /\ commands' = Append(commands, sending.on)
      /\ sending' = [sending EXCEPT !.step = "handled"]
      /\ UNCHANGED <<version, view, reports, optimistic, wanted, atRest>>
  BY DEF SendCommand, PayloadOf, pollingVars, vars, ghosts
<1>2. sending \in [step : {"posting", "handled"}, on : BOOLEAN]
  BY <1>1, PostingFacts DEF LightInv
<1>3. ~InStep("posting")'
  BY <1>1, <1>2 DEF InStep
<1>4. ASSUME atRest PROVE SentIsWanted'
  <2>1. /\ wanted \in BOOLEAN /\ commands \in Seq(BOOLEAN) /\ sending.on = wanted
        /\ \A i \in DOMAIN commands : commands[i] = wanted
        /\ \A i \in DOMAIN reports : reports[i] = wanted
    BY <1>1, <1>4, LoneFacts DEF SentIsWanted
  <2>2. \A i \in DOMAIN commands' : commands'[i] = wanted
    BY <1>1, <2>1, OnlyFacts
  <2> QED BY <1>1, <1>3, <2>1, <2>2 DEF SentIsWanted
<1>5. UpToDate \/ OneBehind => UpToDate' \/ OneBehind'
  BY <1>1 DEF UpToDate, OneBehind, RowOn
<1> QED BY <1>1, <1>4, <1>5 DEF LightInv, LoneInv

LEMMA ObeyLone ==
    ASSUME LightInv, LightObeys
    PROVE  LoneInv'
<1>1. /\ commands # <<>> /\ commands' = Tail(commands)
      /\ reports' = Append(reports, Head(commands))
      /\ UNCHANGED <<version, view, optimistic, sending, wanted, atRest>>
  BY DEF LightObeys, pollingVars, vars, pageVars, ghosts
<1>2. ASSUME atRest PROVE SentIsWanted'
  <2>1. /\ wanted \in BOOLEAN /\ commands \in Seq(BOOLEAN) /\ reports \in Seq(BOOLEAN)
        /\ \A i \in DOMAIN commands : commands[i] = wanted
        /\ \A i \in DOMAIN reports : reports[i] = wanted
        /\ InStep("posting") => sending.on = wanted
    BY <1>2, LoneFacts DEF SentIsWanted
  <2>2. Head(commands) = wanted /\ \A i \in DOMAIN commands' : commands'[i] = wanted
    BY <1>1, <2>1, OnlyFacts
  <2>3. \A i \in DOMAIN reports' : reports'[i] = wanted
    BY <1>1, <2>1, <2>2, OnlyFacts
  <2> QED BY <1>1, <2>1, <2>2, <2>3 DEF SentIsWanted, InStep
<1>3. UpToDate \/ OneBehind => UpToDate' \/ OneBehind'
  BY <1>1 DEF UpToDate, OneBehind, RowOn
<1> QED BY <1>1, <1>2, <1>3 DEF LightInv, LoneInv

LEMMA MissLone ==
    ASSUME LightInv, LightMisses
    PROVE  LoneInv'
<1>1. /\ commands # <<>> /\ commands' = Tail(commands)
      /\ UNCHANGED <<version, view, reports, optimistic, sending, wanted, atRest>>
  BY DEF LightMisses, pollingVars, vars, pageVars
<1>2. ASSUME atRest PROVE SentIsWanted'
  <2>1. /\ wanted \in BOOLEAN /\ commands \in Seq(BOOLEAN)
        /\ \A i \in DOMAIN commands : commands[i] = wanted
    BY <1>2, LoneFacts DEF SentIsWanted
  <2>2. \A i \in DOMAIN commands' : commands'[i] = wanted
    BY <1>1, <2>1, OnlyFacts
  <2> QED BY <1>1, <1>2, <2>2, LoneFacts DEF SentIsWanted, InStep
<1>3. UpToDate \/ OneBehind => UpToDate' \/ OneBehind'
  BY <1>1 DEF UpToDate, OneBehind, RowOn
<1> QED BY <1>1, <1>2, <1>3 DEF LightInv, LoneInv

\* The reports lose their head, consumed or not, and the rest is as it was.
LEMMA ReportsLone ==
    ASSUME LightInv, atRest, reports # <<>>, reports' = Tail(reports),
           UNCHANGED <<commands, sending, wanted>>
    PROVE  SentIsWanted' /\ Head(reports) = wanted
<1>1. /\ wanted \in BOOLEAN /\ reports \in Seq(BOOLEAN)
      /\ \A i \in DOMAIN reports : reports[i] = wanted
  BY LoneFacts DEF SentIsWanted
<1>2. Head(reports) = wanted /\ \A i \in DOMAIN reports' : reports'[i] = wanted
  BY <1>1, OnlyFacts
<1> QED BY <1>2, LoneFacts DEF SentIsWanted, InStep

LEMMA LossLone ==
    ASSUME LightInv, ReportLost
    PROVE  LoneInv'
<1>1. /\ reports # <<>> /\ reports' = Tail(reports)
      /\ UNCHANGED <<version, view, commands, optimistic, sending, wanted, atRest>>
  BY DEF ReportLost, pollingVars, vars, pageVars
<1>2. UpToDate \/ OneBehind => UpToDate' \/ OneBehind'
  BY <1>1 DEF UpToDate, OneBehind, RowOn
<1> QED BY <1>1, <1>2, ReportsLone DEF LightInv, LoneInv

LEMMA ConsumeLone ==
    ASSUME LightInv, ConsumeReport
    PROVE  LoneInv'
<1>1. /\ reports # <<>> /\ reports' = Tail(reports)
      /\ UNCHANGED <<view, commands, optimistic, sending, wanted, atRest>>
      /\ IF Head(reports) # RowOn THEN ServerChanges(Lamp) ELSE UNCHANGED version
  BY DEF ConsumeReport, ServerChanges, pollingVars, vars, pageVars, ghosts
<1>2. ASSUME atRest PROVE UpToDate' \/ OneBehind'
  <2>1. Head(reports) = wanted /\ wanted \in BOOLEAN
    BY <1>1, <1>2, ReportsLone, LoneFacts
  <2>2. /\ version[Lamp] \in Nat /\ Lamp \in Target /\ version \in [Target -> 0..MaxVersion]
        /\ UpToDate \/ OneBehind
    BY <1>2, LoneFacts DEF LightInv, PollingInv, TypeOK
  <2>3. CASE Head(reports) = RowOn
    <3>1. UNCHANGED version
      BY <1>1, <2>3
    <3> QED BY <1>1, <2>2, <3>1 DEF UpToDate, OneBehind, RowOn
  <2>4. CASE Head(reports) # RowOn
    <3>1. version'[Lamp] = version[Lamp] + 1
      BY <1>1, <2>2, <2>4 DEF ServerChanges
    <3>2. ~(RowOn <=> wanted)
      <4>1. RowOn \in BOOLEAN /\ wanted # RowOn
        BY <2>1, <2>4 DEF RowOn
      <4> QED BY <2>1, <4>1
    <3>3. RowOn' <=> ~RowOn
      BY <2>2, <3>1, Parity DEF RowOn
    <3>4. version[Lamp] = view.version /\ optimistic = wanted
      BY <2>2, <3>2 DEF UpToDate, OneBehind
    <3>5. RowOn' <=> wanted
      BY <3>2, <3>3
    <3> QED BY <1>1, <3>1, <3>4, <3>5 DEF OneBehind
  <2> QED BY <2>3, <2>4
<1>3. atRest => view' # NoData
  BY <1>1, LoneFacts
<1> QED BY <1>1, <1>2, <1>3, ReportsLone DEF LightInv, LoneInv

LEMMA SwitchLone ==
    ASSUME LightInv, SomeoneSwitches
    PROVE  LoneInv'
BY DEF SomeoneSwitches, LightInv, LoneInv

\* What may still be shown lies between what is shown and what is there.
LEMMA SnapshotFacts ==
    ASSUME LightInv, atRest, NEW r \in inflight, r.snapshot # Unread, r.id = latest
    PROVE  /\ r.target = Lamp /\ r.snapshot \in Nat
           /\ view.version <= r.snapshot /\ r.snapshot <= version[Lamp]
<1>1. TypeOK /\ view # NoData /\ view.target = Lamp
  BY LoneFacts DEF LightInv, PollingInv
<1>2. r.target = Lamp /\ r.snapshot \in 0..MaxVersion
  BY <1>1, RequestFacts, LightAssumption
<1> QED BY <1>1, <1>2, PollingAssumption
        DEF LightInv, PollingInv, ReadsArePast, LastIsNewest

LEMMA AnswerLone ==
    ASSUME LightInv, NEW r \in inflight, AnswerArrives(r)
    PROVE  LoneInv'
<1>1. /\ r.snapshot # Unread
      /\ UNCHANGED <<version, commands, reports, wanted, atRest>>
      /\ sending' = sending \/ sending' = Ready
      /\ optimistic' = IF r.id = latest THEN Settled ELSE optimistic
      /\ view' = IF r.id = latest THEN [target |-> r.target, version |-> r.snapshot]
                                  ELSE view
  BY DEF AnswerArrives, Responds, MayWrite, AfterRefresh, worldVars, ghosts
<1>2. CASE r.id # latest
  <2>1. UNCHANGED <<view, optimistic>>
    BY <1>1, <1>2
  <2>2. LoneInv
    BY DEF LightInv
  <2>3. sending' = sending \/ ~InStep("posting")'
    BY <1>1 DEF InStep
  <2> QED BY <1>1, <2>1, <2>2, <2>3, LoneFrame
<1>3. CASE r.id = latest
  <2>1. ASSUME atRest PROVE SentIsWanted'
    BY <1>1, <2>1, LoneFacts DEF SentIsWanted, InStep
  <2>2. ASSUME atRest PROVE view' # NoData /\ (UpToDate' \/ OneBehind')
    <3>1. /\ r.target = Lamp /\ r.snapshot \in Nat
          /\ view.version <= r.snapshot /\ r.snapshot <= version[Lamp]
      BY <1>1, <1>3, <2>2, SnapshotFacts
    <3>2. /\ wanted \in BOOLEAN /\ view # NoData /\ (UpToDate \/ OneBehind)
          /\ view.version \in Nat /\ version[Lamp] \in Nat /\ Lamp \in Target
      BY <2>2, LoneFacts
    <3>3. view' = [target |-> Lamp, version |-> r.snapshot] /\ optimistic' = Settled
      BY <1>1, <1>3, <3>1
    <3>4. view'.version = r.snapshot /\ view' # NoData
      BY <3>1, <3>2, <3>3, PollingAssumption
    <3>5. CASE r.snapshot = view.version
      <4>1. ViewOn' = ViewOn
        BY <3>4, <3>5 DEF ViewOn
      <4>2. optimistic' = optimistic
        BY <3>3, <4>1 DEF Settled
      <4> QED BY <1>1, <3>2, <3>4, <3>5, <4>2 DEF UpToDate, OneBehind, RowOn
    <3>6. CASE r.snapshot # view.version
      <4>1. OneBehind /\ r.snapshot = view.version + 1 /\ version[Lamp] = r.snapshot
        BY <3>1, <3>2, <3>6 DEF UpToDate, OneBehind
      <4>2. optimistic = wanted /\ (RowOn <=> wanted)
        BY <4>1 DEF OneBehind
      <4>3. ViewOn' <=> RowOn
        BY <3>4, <4>1 DEF ViewOn, RowOn
      <4>4. ViewOn' <=> ~ViewOn
        BY <3>2, <3>4, <4>1, Parity DEF ViewOn
      <4>5. ViewOn' \in BOOLEAN /\ ViewOn \in BOOLEAN
        BY DEF ViewOn
      <4>6. ViewOn' # ViewOn /\ optimistic = ViewOn'
        BY <3>2, <4>2, <4>3, <4>4, <4>5
      <4>7. optimistic' = NoIntent
        BY <3>2, <3>3, <4>6 DEF Settled
      <4>8. RowOn' <=> wanted'
        BY <1>1, <4>2 DEF RowOn
      <4> QED BY <1>1, <3>4, <4>1, <4>7, <4>8 DEF UpToDate
    <3> QED BY <3>4, <3>5, <3>6
  <2> QED BY <1>1, <2>1, <2>2 DEF LightInv, LoneInv
<1> QED BY <1>2, <1>3

LEMMA LoneStep ==
    ASSUME LightInv, LightNext
    PROVE  LoneInv'
<1>1. ASSUME CommandAccepted \/ CommandFails \/ Mount \/ Poll PROVE LoneInv'
  <2>1. /\ UNCHANGED <<version, view, commands, reports, optimistic, wanted, atRest>>
        /\ sending' = sending \/ ~InStep("posting")'
    BY <1>1 DEF CommandAccepted, CommandFails, Mount, Poll, RunEffect, Refresh, InStep,
                pollingVars, vars, worldVars, pageVars, ghosts
  <2> QED BY <2>1, LoneFrame DEF LightInv
<1>2. ASSUME NEW r \in inflight, BackendReads(r) \/ RequestFails(r) PROVE LoneInv'
  <2>1. /\ UNCHANGED <<version, view, commands, reports, optimistic, wanted, atRest>>
        /\ sending' = sending \/ ~InStep("posting")'
    BY <1>2 DEF BackendReads, RequestFails, ServerReads, Fails, AfterRefresh, InStep,
                worldVars, pageVars, ghosts
  <2> QED BY <2>1, LoneFrame DEF LightInv
<1> QED BY <1>1, <1>2, ToggleLone, SendLone, ObeyLone, MissLone, LossLone, ConsumeLone,
           SwitchLone, AnswerLone DEF LightNext

LEMMA LightStep == LightInv /\ [LightNext]_lightVars => LightInv'
<1>1. ASSUME LightInv, LightNext PROVE LightInv'
  <2>1. PollingInv'
    BY <1>1, PollingStep, NextInv DEF LightInv
  <2>2. LightTypeOK'
    BY <1>1, <2>1, TypeStep DEF LightInv, PollingInv
  <2>3. LoneInv'
    BY <1>1, LoneStep
  <2> QED BY <2>1, <2>2, <2>3 DEF LightInv
<1>2. ASSUME LightInv, UNCHANGED lightVars PROVE LightInv'
  <2>1. UNCHANGED vars /\ UNCHANGED <<light, commands, reports, optimistic, sending,
                                      wanted, atRest>>
    BY <1>2 DEF lightVars, pollingVars, worldVars, pageVars, ghosts
  <2>2. PollingInv'
    BY <1>2, <2>1, NextInv DEF LightInv
  <2>3. UNCHANGED <<version, view, latest>>
    BY <2>1 DEF vars
  <2>4. LightTypeOK'
    BY <1>2, <2>1, <2>2, <2>3 DEF LightInv, LightTypeOK, PollingInv
  <2>5. LoneInv'
    BY <1>2, <2>1, <2>3, LoneFrame DEF LightInv
  <2> QED BY <2>2, <2>4, <2>5 DEF LightInv
<1> QED BY <1>1, <1>2

\* The invariant holds throughout, whatever the fairness.
THEOREM LightInvariance == LightSpec => []LightInv
<1> QED BY LightInitInv, LightStep, PTL DEF LightSpec

\* The queues hold states, an intent exists only on a card that is shown, and a
\* click waits for a request that was started.
THEOREM LightTypeCorrect == LightSpec => []LightTypeOK
<1>1. LightInv => LightTypeOK
  BY DEF LightInv
<1> QED BY <1>1, LightInvariance, PTL

\* A click made while nothing else is on its way is shown from then on, whatever
\* polls, late snapshots, lost commands and failed requests follow it.
THEOREM LoneClickIsNotTurnedBack == LightSpec => []LoneClickIsKept
<1>1. ASSUME LightInv PROVE LoneClickIsKept
  <2>1. ASSUME atRest PROVE Shown = wanted
    <3>1. wanted \in BOOLEAN /\ (UpToDate \/ OneBehind)
      BY <1>1, <2>1, LoneFacts
    <3>2. CASE optimistic = wanted
      BY <3>1, <3>2, LightAssumption DEF Shown
    <3>3. CASE optimistic # wanted
      <4>1. optimistic = NoIntent /\ version[Lamp] = view.version /\ (RowOn <=> wanted)
        BY <3>1, <3>3 DEF UpToDate, OneBehind
      <4>2. ViewOn <=> wanted
        BY <4>1 DEF ViewOn, RowOn
      <4>3. ViewOn = wanted
        BY <3>1, <4>2 DEF ViewOn
      <4> QED BY <4>1, <4>3 DEF Shown
    <3> QED BY <3>2, <3>3
  <2> QED BY <2>1 DEF LoneClickIsKept
<1> QED BY <1>1, LightInvariance, PTL

\* The page's requests keep the promise of usePolling in the round trip too: no
\* answer takes the page back to an older state of the light than it has shown.
THEOREM LightViewIsMonotonic == LightSpec => ViewSpec
<1>1. LightInit => View!Init
  BY DEF LightInit, Init, View!Init
<1>2. LightInv /\ [LightNext]_lightVars => [View!Next]_(View!viewVars)
  BY PollingStep, ViewStep DEF LightInv
<1> QED BY <1>1, <1>2, LightInvariance, PTL DEF LightSpec, ViewSpec, View!Spec

(***************************************************************************)
(* The end of the round trip.  What has not arrived yet tells how it ends: *)
(* the row follows the last report, and the light the last command.        *)
(***************************************************************************)
EndOf(q) == q[Len(q)]

\* Nothing has been lost since the last click, and its command has reached the light.
Reached == "lost" \notin excuses /\ ~InStep("posting") /\ commands = <<>>

\* Then the last report says what the light does; without reports the row does.
RowFollows ==
    Reached => IF reports = <<>> THEN RowOn <=> light ELSE EndOf(reports) = light

\* What was last asked of the light, posted, on its way or done, is the intent.
LightFollows ==
    excuses = {} /\ optimistic # NoIntent =>
        IF InStep("posting") THEN sending.on = optimistic
        ELSE IF commands # <<>> THEN EndOf(commands) = optimistic ELSE light = optimistic

RoundTripInv == LightInv /\ RowFollows /\ LightFollows

\* The end of a queue that grows or loses its head.
LEMMA EndFacts ==
    ASSUME NEW q \in Seq(BOOLEAN)
    PROVE  /\ \A b \in BOOLEAN : Append(q, b) # <<>> /\ EndOf(Append(q, b)) = b
           /\ q # <<>> /\ Tail(q) = <<>> => EndOf(q) = Head(q)
           /\ q # <<>> /\ Tail(q) # <<>> => EndOf(Tail(q)) = EndOf(q)
<1>1. \A b \in BOOLEAN : Append(q, b) # <<>> /\ EndOf(Append(q, b)) = b
  BY DEF EndOf
<1>2. ASSUME q # <<>>
      PROVE  /\ Len(q) \in Nat \ {0} /\ Len(Tail(q)) = Len(q) - 1 /\ Head(q) = q[1]
             /\ Tail(q) \in Seq(BOOLEAN)
             /\ \A i \in 1..Len(Tail(q)) : Tail(q)[i] = q[i + 1]
  BY <1>2
<1>3. ASSUME q # <<>>, Tail(q) = <<>> PROVE EndOf(q) = Head(q)
  <2>1. Len(Tail(q)) = Len(q) - 1 /\ Len(q) \in Nat
    BY <1>2, <1>3
  <2>2. \A s : s = <<>> => Len(s) = 0
    OBVIOUS
  <2>3. Len(Tail(q)) = 0
    BY <1>3, <2>2, Zenon
  <2>4. Len(q) = 1
    BY <2>1, <2>3
  <2> QED BY <1>2, <1>3, <2>4 DEF EndOf
<1>4. ASSUME q # <<>>, Tail(q) # <<>> PROVE EndOf(Tail(q)) = EndOf(q)
  <2>1. Len(Tail(q)) \in Nat \ {0}
    BY <1>2, <1>4
  <2>2. Tail(q)[Len(Tail(q))] = q[Len(Tail(q)) + 1] /\ Len(Tail(q)) + 1 = Len(q)
    BY <1>2, <1>4, <2>1
  <2> QED BY <2>2 DEF EndOf
<1> QED BY <1>1, <1>3, <1>4

\* A step that leaves the light, the row and what is on its way alone.
LEMMA TripFrame ==
    ASSUME RoundTripInv, UNCHANGED <<version, light, commands, reports>>,
           excuses' = excuses \/ excuses' = excuses \cup {"lost"},
           optimistic' = optimistic \/ optimistic' = NoIntent,
           InStep("posting") => "lost" \in excuses' \/ sending' = sending,
           InStep("posting")' => sending' = sending
    PROVE  RowFollows' /\ LightFollows'
<1>1. RowFollows'
  <2>1. SUFFICES ASSUME Reached'
                 PROVE  IF reports' = <<>> THEN RowOn' <=> light' ELSE EndOf(reports') = light'
    BY DEF RowFollows
  <2>2. "lost" \notin excuses' /\ ~InStep("posting")' /\ commands = <<>>
    BY <2>1 DEF Reached
  <2>3. "lost" \notin excuses /\ ~InStep("posting")
    BY <2>2 DEF InStep
  <2>4. Reached
    BY <2>2, <2>3 DEF Reached
  <2> QED BY <2>4 DEF RoundTripInv, RowFollows, RowOn
<1>2. LightFollows'
  <2>1. excuses' = {} => excuses = {} /\ "lost" \notin excuses'
    OBVIOUS
  <2> QED BY <2>1 DEF RoundTripInv, LightFollows, InStep
<1> QED BY <1>1, <1>2

LEMMA ToggleTrip ==
    ASSUME RoundTripInv, Toggle
    PROVE  RowFollows' /\ LightFollows'
<1>1. optimistic' = ~Shown /\ sending' = [step |-> "posting", on |-> ~Shown]
  BY DEF Toggle
<1>3. sending'.on = optimistic' /\ sending'.step = "posting"
  BY <1>1
<1>4. sending' # Ready => LightFollows'
  BY <1>3 DEF LightFollows, InStep
<1>5. sending' # Ready
  <2>1. (~Shown) \in BOOLEAN
    BY ShownFacts DEF RoundTripInv, LightInv
  <2>2. sending' \in [step : {"posting"}, on : BOOLEAN]
    BY <1>1, <2>1
  <2> QED BY <2>2, LightAssumption
<1>6. RowFollows'
  BY <1>3, <1>5 DEF RowFollows, Reached, InStep
<1> QED BY <1>4, <1>5, <1>6

LEMMA SendTrip ==
    ASSUME RoundTripInv, SendCommand
    PROVE  RowFollows' /\ LightFollows'
<1>1. /\ InStep("posting") /\ commands' = Append(commands, sending.on)
      /\ sending' = [sending EXCEPT !.step = "handled"]
      /\ UNCHANGED <<version, light, reports, optimistic, excuses>>
  BY DEF SendCommand, PayloadOf, pollingVars, vars, ghosts
<1>2. sending \in [step : {"posting", "handled"}, on : BOOLEAN]
      /\ commands \in Seq(BOOLEAN)
  BY <1>1, PostingFacts DEF RoundTripInv, LightInv, LightTypeOK
<1>3. ~InStep("posting")'
  BY <1>1, <1>2 DEF InStep
<1>4. commands' # <<>> /\ EndOf(commands') = sending.on
  BY <1>1, <1>2, EndFacts
<1>5. RowFollows'
  BY <1>4 DEF RowFollows, Reached
<1> QED BY <1>1, <1>3, <1>4, <1>5 DEF RoundTripInv, LightFollows

LEMMA ObeyTrip ==
    ASSUME RoundTripInv, LightObeys
    PROVE  RowFollows' /\ LightFollows'
<1>1. /\ commands # <<>> /\ light' = Head(commands) /\ commands' = Tail(commands)
      /\ reports' = Append(reports, light')
      /\ UNCHANGED <<version, optimistic, sending, excuses>>
  BY DEF LightObeys, pollingVars, vars, pageVars, ghosts
<1>2. commands \in Seq(BOOLEAN) /\ reports \in Seq(BOOLEAN)
  BY DEF RoundTripInv, LightInv, LightTypeOK
<1>3. light' \in BOOLEAN
  BY <1>1, <1>2, QueueFacts
<1>4. reports' # <<>> /\ EndOf(reports') = light'
  BY <1>1, <1>2, <1>3, EndFacts
<1>5. RowFollows'
  BY <1>4 DEF RowFollows
<1>6. /\ commands' = <<>> => light' = EndOf(commands)
      /\ commands' # <<>> => EndOf(commands') = EndOf(commands)
  BY <1>1, <1>2, EndFacts
<1>7. LightFollows'
  BY <1>1, <1>6 DEF RoundTripInv, LightFollows, InStep
<1> QED BY <1>5, <1>7

LEMMA SwitchTrip ==
    ASSUME RoundTripInv, SomeoneSwitches
    PROVE  RowFollows' /\ LightFollows'
<1>1. /\ light' = ~light /\ reports' = Append(reports, light')
      /\ optimistic # NoIntent => excuses' # {}
      /\ UNCHANGED <<optimistic>>
  BY DEF SomeoneSwitches, pageVars
<1>2. light' \in BOOLEAN /\ reports \in Seq(BOOLEAN)
  BY <1>1 DEF RoundTripInv, LightInv, LightTypeOK
<1>3. reports' # <<>> /\ EndOf(reports') = light'
  BY <1>1, <1>2, EndFacts
<1>4. optimistic' # NoIntent => excuses' # {}
  BY <1>1
<1> QED BY <1>3, <1>4 DEF RowFollows, LightFollows

LEMMA ConsumeTrip ==
    ASSUME RoundTripInv, ConsumeReport
    PROVE  RowFollows' /\ LightFollows'
<1>1. /\ reports # <<>> /\ reports' = Tail(reports)
      /\ UNCHANGED <<light, commands, optimistic, sending, excuses>>
      /\ IF Head(reports) # RowOn THEN ServerChanges(Lamp) ELSE UNCHANGED version
  BY DEF ConsumeReport, pollingVars, vars, pageVars, ghosts
<1>2. /\ reports \in Seq(BOOLEAN) /\ light \in BOOLEAN /\ Lamp \in Target
      /\ version \in [Target -> 0..MaxVersion] /\ version[Lamp] \in Nat
  <2>1. version \in [Target -> 0..MaxVersion] /\ Lamp \in Target
    BY LightAssumption DEF RoundTripInv, LightInv, LightTypeOK, TypeOK
  <2>2. version[Lamp] \in Nat
    BY <2>1, PollingAssumption
  <2> QED BY <2>1, <2>2 DEF RoundTripInv, LightInv, LightTypeOK
<1>3. Head(reports) \in BOOLEAN
  BY <1>1, <1>2, QueueFacts
<1>4. RowOn' <=> Head(reports)
  <2>1. CASE Head(reports) # RowOn
    <3>1. version'[Lamp] = version[Lamp] + 1
      BY <1>1, <1>2, <2>1 DEF ServerChanges
    <3>2. RowOn' <=> ~RowOn
      BY <1>2, <3>1, Parity DEF RowOn
    <3>3. RowOn \in BOOLEAN
      BY DEF RowOn
    <3>4. Head(reports) = TRUE <=> RowOn = FALSE
      BY <1>3, <2>1, <3>3
    <3> QED BY <1>3, <3>2, <3>3, <3>4
  <2>2. CASE Head(reports) = RowOn
    <3>1. UNCHANGED version
      BY <1>1, <2>2
    <3>2. RowOn' = RowOn
      BY <3>1 DEF RowOn
    <3> QED BY <2>2, <3>2
  <2> QED BY <2>1, <2>2
<1>5. RowFollows'
  <2>1. SUFFICES ASSUME Reached
                 PROVE  IF reports' = <<>> THEN RowOn' <=> light ELSE EndOf(reports') = light
    BY <1>1 DEF RowFollows, Reached, InStep
  <2>2. EndOf(reports) = light
    BY <1>1, <2>1 DEF RoundTripInv, RowFollows
  <2>3. CASE reports' = <<>>
    <3>1. Head(reports) = light
      BY <1>1, <1>2, <2>2, <2>3, EndFacts
    <3> QED BY <1>4, <2>3, <3>1
  <2>4. CASE reports' # <<>>
    BY <1>1, <1>2, <2>2, <2>4, EndFacts
  <2> QED BY <2>3, <2>4
<1>6. LightFollows'
  BY <1>1 DEF RoundTripInv, LightFollows, InStep
<1> QED BY <1>5, <1>6

LEMMA RoundTripStep == RoundTripInv /\ [LightNext]_lightVars => RoundTripInv'
<1> SUFFICES ASSUME RoundTripInv, [LightNext]_lightVars PROVE RoundTripInv'
  OBVIOUS
<1>1. LightInv'
  BY LightStep DEF RoundTripInv
<1>2. CASE Toggle \/ SendCommand \/ LightObeys \/ SomeoneSwitches \/ ConsumeReport
  BY <1>1, <1>2, ToggleTrip, SendTrip, ObeyTrip, SwitchTrip, ConsumeTrip DEF RoundTripInv
<1>3. CASE LightMisses \/ ReportLost
  <2>1. "lost" \in excuses'
    BY <1>3 DEF LightMisses, ReportLost, Loss
  <2>2. ~Reached' /\ excuses' # {}
    BY <2>1 DEF Reached
  <2> QED BY <1>1, <2>2 DEF RoundTripInv, RowFollows, LightFollows
<1>4. CASE CommandAccepted \/ CommandFails
  <2>1. /\ UNCHANGED <<version, light, commands, reports, optimistic>>
        /\ excuses' = excuses \/ excuses' = excuses \cup {"lost"}
    <3>1. CASE CommandAccepted
      BY <3>1 DEF CommandAccepted, Refresh, worldVars, ghosts
    <3>2. CASE CommandFails
      BY <3>2 DEF CommandFails, Loss, pollingVars, vars, worldVars
    <3> QED BY <1>4, <3>1, <3>2
  <2>2. /\ InStep("posting") => "lost" \in excuses' \/ sending' = sending
        /\ InStep("posting")' => sending' = sending
    <3>1. CASE CommandAccepted
      <4>1. ~InStep("posting") /\ sending'.step = "refreshing"
        BY <3>1 DEF CommandAccepted, InStep
      <4> QED BY <4>1 DEF InStep
    <3>2. CASE CommandFails
      BY <3>2 DEF CommandFails, Loss, InStep
    <3> QED BY <1>4, <3>1, <3>2
  <2> QED BY <1>1, <2>1, <2>2, TripFrame DEF RoundTripInv
<1>5. CASE Mount \/ Poll \/ UNCHANGED lightVars
  <2>1. UNCHANGED <<version, light, commands, reports, optimistic, sending, excuses>>
    BY <1>5 DEF Mount, Poll, RunEffect, Refresh, lightVars, pollingVars, vars, worldVars, pageVars,
                ghosts
  <2> QED BY <1>1, <2>1, TripFrame DEF RoundTripInv
<1>6. ASSUME NEW r \in inflight, BackendReads(r) \/ AnswerArrives(r) \/ RequestFails(r)
      PROVE  RoundTripInv'
  <2>1. /\ UNCHANGED <<version, light, commands, reports, excuses>>
        /\ optimistic' = optimistic \/ optimistic' = NoIntent
    BY <1>6 DEF BackendReads, AnswerArrives, RequestFails, ServerReads, Responds, Fails, Settled,
                worldVars, pageVars, ghosts
  <2>2. sending' = sending \/ (InStep("refreshing") /\ sending' = Ready)
    BY <1>6 DEF BackendReads, AnswerArrives, RequestFails, AfterRefresh, pageVars
  <2>3. /\ InStep("posting") => sending' = sending
        /\ InStep("posting")' => sending' = sending
    BY <2>2 DEF InStep
  <2> QED BY <1>1, <2>1, <2>3, TripFrame DEF RoundTripInv
<1> QED BY <1>2, <1>3, <1>4, <1>5, <1>6 DEF LightNext

LEMMA RoundTripStart == LightInit => RoundTripInv
<1> SUFFICES ASSUME LightInit PROVE RoundTripInv
  OBVIOUS
<1>1. LightInv
  BY LightInitInv
<1>2. ~RowOn
  <2>1. version[Lamp] = 0
    BY LightAssumption DEF LightInit, Init
  <2> QED BY <2>1 DEF RowOn
<1> QED BY <1>1, <1>2 DEF RoundTripInv, RowFollows, LightFollows, LightInit

\* When clicks, commands, reports and polls have come to an end, the switch shows what the
\* light does, with the exceptions SwitchAgreesWhenQuiet names: a loss since the last
\* click, and an intent still pending when somebody else switches the light.
THEOREM SwitchAgrees == LightSpec => []SwitchAgreesWhenQuiet
<1>1. ASSUME RoundTripInv, Quiescent, "lost" \notin excuses,
             ~(optimistic # NoIntent /\ excuses # {})
      PROVE  Shown = light
  <2>0. Reached
    BY <1>1, LightAssumption DEF Quiescent, Reached, InStep
  <2>1. (ViewOn <=> light) /\ light \in BOOLEAN
    BY <1>1, <2>0 DEF RoundTripInv, RowFollows, Quiescent, ViewOn, RowOn, LightInv, LightTypeOK
  <2>2. ViewOn = light
    BY <2>1 DEF ViewOn
  <2>3. optimistic # NoIntent => optimistic = light
    BY <1>1 DEF RoundTripInv, LightFollows, Quiescent, InStep
  <2> QED BY <2>2, <2>3 DEF Shown
<1>2. RoundTripInv => SwitchAgreesWhenQuiet
  BY <1>1 DEF SwitchAgreesWhenQuiet
<1> QED BY <1>2, RoundTripStart, RoundTripStep, PTL DEF LightSpec
=============================================================================
