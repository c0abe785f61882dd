---------------------------- MODULE ServerProofs ----------------------------
(***************************************************************************)
(* Theorems about one request through the server, for any requests.        *)
(***************************************************************************)
EXTENDS Server, TLAPS

----------------------------------------------------------------------------
(* The inductive invariant.                                                *)

TypeOK ==
    /\ in \in Input
    /\ setup \in Setup
    /\ stage \in {"arrival", "limit", "mode", "body", "waiting", "piping", "over"}
    /\ gone \in BOOLEAN
    /\ sent \in {"none", "open", "closed"}
    /\ head \in [ResponseField -> SUBSET {"proxy", "upstream"}]
    /\ named \in SUBSET ResponseField

\* Before the upstream's head arrives, nothing is answered, nothing is named, and
\* the head is the proxy's.
HeadIsProxys ==
    stage \in {"arrival", "limit", "mode", "body", "waiting"} =>
        written = <<>> /\ named = {} /\ head = ProxyHead

\* There is at most one answer, and one of the proxy's own has the proxy's head.
AnswerIsOwn ==
    \/ written = <<>>
    \/ written = <<written[1]>> /\ (written[1].by = "proxy" => written[1].head = ProxyHead)

\* The upstream request is open while it is waited for by a caller that is there.
ConnectionHeld ==
    /\ stage = "arrival" => ~ gone
    /\ stage \in {"arrival", "limit", "mode", "body"} => sent = "none"
    /\ stage \in {"waiting", "piping"} => sent = IF gone THEN "closed" ELSE "open"
    /\ stage = "over" => sent # "open"

IndInv == TypeOK /\ HeadIsProxys /\ AnswerIsOwn /\ ConnectionHeld /\ OversizedCostsNothing

\* Nothing has arrived.
LEMMA InitInv == Init => IndInv
<1> SUFFICES ASSUME Init PROVE IndInv
  OBVIOUS
<1> USE ServerAssumption DEF Init
<1>1. TypeOK
  BY DEF TypeOK, Input, Setup, ProxyHead, ProxySet, ResponseField
<1>2. HeadIsProxys /\ AnswerIsOwn /\ ConnectionHeld /\ OversizedCostsNothing
  BY DEF HeadIsProxys, AnswerIsOwn, ConnectionHeld, OversizedCostsNothing
<1> QED BY <1>1, <1>2 DEF IndInv

\* A head with nothing named goes out as it stands.
LEMMA NothingNamed ==
    ASSUME NEW onto \in [ResponseField -> SUBSET {"proxy", "upstream"}]
    PROVE  HeadWritten(onto, {}) = onto
BY DEF HeadWritten

\* The head the proxy sets is a head.
LEMMA ProxyHeadType == ProxyHead \in [ResponseField -> SUBSET {"proxy", "upstream"}]
BY DEF ProxyHead

----------------------------------------------------------------------------
(* The stages before the body limit.                                       *)

\* A request that is answered at once ends with the proxy's head.
LEMMA AtOnceInv ==
    ASSUME IndInv, stage = "arrival", continueWithinLimit,
           NEW status, NEW fields \in SUBSET ResponseField, AnswersAtOnce(status, fields)
    PROVE  IndInv'
<1> USE DEF IndInv, AnswersAtOnce
<1>0. ProxyHead' \in [ResponseField -> SUBSET {"proxy", "upstream"}]
  BY DEF ProxyHead
<1>1. TypeOK'
  BY <1>0 DEF TypeOK, Setup
<1>2. HeadIsProxys' /\ AnswerIsOwn' /\ ConnectionHeld'
  BY DEF HeadIsProxys, AnswerIsOwn, ConnectionHeld
<1>3. OversizedCostsNothing'
  BY DEF OversizedCostsNothing, continueWithinLimit, declaredOverLimit
<1> QED BY <1>1, <1>2, <1>3

\* The fields of the stages before the router.
LEMMA CorsFieldsType == CorsFields \subseteq ResponseField
BY DEF CorsFields, ResponseField

\* A request that enters the router has the head the router's stages set.
LEMMA EntersRouterInv ==
    ASSUME IndInv, EntersRouter
    PROVE  IndInv'
<1> USE DEF IndInv, EntersRouter, SettledId
<1>0. ProxyHead' \in [ResponseField -> SUBSET {"proxy", "upstream"}]
  BY DEF ProxyHead
<1>1. in' \in Input /\ in'.declared = in.declared
  BY DEF TypeOK, Input, RequestField
<1>2. setup' \in Setup
  BY CorsFieldsType DEF TypeOK, Setup, ResponseField
<1>3. TypeOK'
  BY <1>0, <1>1, <1>2 DEF TypeOK
<1>4. HeadIsProxys' /\ AnswerIsOwn' /\ ConnectionHeld'
  BY DEF HeadIsProxys, AnswerIsOwn, ConnectionHeld
<1>5. OversizedCostsNothing'
  BY <1>1 DEF OversizedCostsNothing, continueWithinLimit, declaredOverLimit
<1> QED BY <1>3, <1>4, <1>5

\* A caller sends its body only if it need not wait to be told, or was.
LEMMA CallerSendsInv ==
    ASSUME IndInv, CallerSends
    PROVE  IndInv'
<1> USE DEF IndInv, CallerSends, stageVars
<1>1. TypeOK' /\ HeadIsProxys' /\ AnswerIsOwn' /\ ConnectionHeld'
  BY DEF TypeOK, HeadIsProxys, AnswerIsOwn, ConnectionHeld, ProxyHead, ProxySet
<1>2. OversizedCostsNothing'
  BY DEF OversizedCostsNothing
<1> QED BY <1>1, <1>2

----------------------------------------------------------------------------
(* The proxy's own answers.                                                *)

\* What refuse adds to the answers, with the proxy's head and nothing named.
LEMMA RefuseAnswers ==
    ASSUME TypeOK, NEW reason, NEW status, Refuse(reason, status, ProxyHead),
           written = <<>>, named' = {}, UNCHANGED setup
    PROVE  /\ stage' = "over"
           /\ gone => written' = <<>>
           /\ ~ gone => \E a : written' = <<a>> /\ a.head = ProxyHead'
<1>1. HeadWritten(ProxyHead, named') = ProxyHead
  BY NothingNamed, ProxyHeadType
<1>2. ProxyHead' = ProxyHead
  BY DEF ProxyHead, ProxySet
<1>3. CASE gone
  BY <1>3 DEF Refuse
<1>4. CASE ~ gone
  <2> DEFINE a == [by |-> "proxy", status |-> status, head |-> HeadWritten(ProxyHead, named')]
  <2>1. written' = Append(<<>>, a)
    BY <1>4 DEF Refuse
  <2>2. written' = <<a>> /\ a.head = ProxyHead'
    BY <2>1, <1>1, <1>2
  <2> QED BY <1>4, <2>2 DEF Refuse
<1> QED BY <1>3, <1>4

\* An error before any answer ends the exchange, with an answer of the proxy's own.
LEMMA ErrorAnswers ==
    ASSUME TypeOK, NEW reason, NEW status, HandleError(reason, status, ProxyHead),
           written = <<>>, named' = {}, UNCHANGED setup
    PROVE  /\ stage' = "over" /\ gone' = gone
           /\ gone => written' = <<>>
           /\ ~ gone => \E a : written' = <<a>> /\ a.head = ProxyHead'
BY RefuseAnswers DEF HandleError, headersSent

\* An exchange that ends so keeps the invariant.
LEMMA EndedInv ==
    ASSUME IndInv, written = <<>>, UNCHANGED <<in, setup, callerVars>>,
           stage' = "over", gone' = gone, sent' \in {"none", "closed"},
           in.declared = "over" => sent' = sent,
           head' \in [ResponseField -> SUBSET {"proxy", "upstream"}], named' = {},
           gone => written' = <<>>,
           ~ gone => \E a : written' = <<a>> /\ a.head = ProxyHead'
    PROVE  IndInv'
<1> USE DEF IndInv
<1>1. TypeOK' /\ HeadIsProxys'
  BY DEF TypeOK, HeadIsProxys
<1>2. ConnectionHeld'
  BY DEF ConnectionHeld
<1>3. AnswerIsOwn'
  BY DEF AnswerIsOwn, TypeOK
<1>4. OversizedCostsNothing'
  BY DEF OversizedCostsNothing, callerVars
<1> QED BY <1>1, <1>2, <1>3, <1>4

----------------------------------------------------------------------------
(* From the body limit to the upstream request.                            *)

\* A step that only moves a live exchange on, to a stage before the upstream's.
LEMMA MovesOnInv ==
    ASSUME IndInv, UNCHANGED <<in, setup, gone, sent, head, named, written, callerVars>>,
           stage \in {"limit", "mode", "body"}, stage' \in {"mode", "body"},
           in.declared # "over"
    PROVE  IndInv'
<1> USE DEF IndInv
<1>0. ProxyHead' = ProxyHead
  BY DEF ProxyHead, ProxySet
<1>1. TypeOK' /\ HeadIsProxys' /\ AnswerIsOwn' /\ ConnectionHeld'
  BY <1>0 DEF TypeOK, HeadIsProxys, AnswerIsOwn, ConnectionHeld
<1>2. OversizedCostsNothing'
  BY DEF OversizedCostsNothing
<1> QED BY <1>1, <1>2

\* The body limit ends a request that declares too much, and lets others on.
LEMMA GuardInv ==
    ASSUME IndInv, Guard, UNCHANGED callerVars
    PROVE  IndInv'
<1>0. HeadIsProxys /\ TypeOK /\ ConnectionHeld
  BY DEF IndInv
<1>1. written = <<>> /\ named = {} /\ head = ProxyHead /\ sent = "none" /\ stage = "limit"
  BY <1>0 DEF Guard, HeadIsProxys, ConnectionHeld
<1>2. CASE declaredOverLimit
  <2>1. Refuse("body_too_large", 413, ProxyHead) /\ named' = {}
    BY <1>1, <1>2 DEF Guard
  <2>2. UNCHANGED <<in, setup, gone, sent, head>>
    BY DEF Guard
  <2>3. /\ stage' = "over"
        /\ gone => written' = <<>>
        /\ ~ gone => \E a : written' = <<a>> /\ a.head = ProxyHead'
    BY <1>0, <1>1, <2>1, <2>2, RefuseAnswers
  <2> QED BY <1>0, <1>1, <2>1, <2>2, <2>3, EndedInv DEF TypeOK
<1>3. CASE ~ declaredOverLimit
  BY <1>1, <1>3, MovesOnInv DEF Guard, declaredOverLimit
<1> QED BY <1>2, <1>3

\* The mode forwards.
LEMMA ModeForwardsInv ==
    ASSUME IndInv, ModeForwards, UNCHANGED callerVars
    PROVE  IndInv'
BY MovesOnInv DEF ModeForwards, IndInv, OversizedCostsNothing

\* The mode answers, with the proxy's head.
LEMMA ModeRefusesInv ==
    ASSUME IndInv, ModeRefuses, UNCHANGED callerVars
    PROVE  IndInv'
<1>0. HeadIsProxys /\ TypeOK /\ ConnectionHeld
  BY DEF IndInv
<1>1. written = <<>> /\ named = {} /\ head = ProxyHead /\ sent = "none"
  BY <1>0 DEF ModeRefuses, HeadIsProxys, ConnectionHeld
<1>2. ProxyHead' = ProxyHead
  BY DEF ModeRefuses, ProxyHead, ProxySet
<1>3. ~ gone => \E a : written' = <<a>> /\ a.head = ProxyHead'
  BY <1>1, <1>2 DEF ModeRefuses
<1> QED BY <1>0, <1>1, <1>3, EndedInv DEF ModeRefuses, TypeOK

\* A body that cannot be read ends the exchange before the upstream request.
LEMMA BodyFailsInv ==
    ASSUME IndInv, BodyFails, UNCHANGED callerVars
    PROVE  IndInv'
<1>0. HeadIsProxys /\ TypeOK /\ ConnectionHeld
  BY DEF IndInv
<1>1. written = <<>> /\ named = {} /\ head = ProxyHead /\ sent = "none"
  BY <1>0 DEF BodyFails, HeadIsProxys, ConnectionHeld
<1>2. UNCHANGED <<in, setup, sent, head, named>>
  BY DEF BodyFails
<1>3. PICK reason, status : HandleError(reason, status, ProxyHead)
  BY <1>1 DEF BodyFails
<1>4. /\ stage' = "over" /\ gone' = gone
      /\ gone => written' = <<>>
      /\ ~ gone => \E a : written' = <<a>> /\ a.head = ProxyHead'
  BY <1>0, <1>1, <1>2, <1>3, ErrorAnswers
<1> QED BY <1>0, <1>1, <1>2, <1>4, EndedInv DEF TypeOK

\* The upstream request is opened for a caller that is there.
LEMMA SendsInv ==
    ASSUME IndInv, Sends, UNCHANGED callerVars
    PROVE  IndInv'
<1> USE DEF IndInv, Sends
<1>0. ProxyHead' = ProxyHead
  BY DEF ProxyHead, ProxySet
<1>1. TypeOK' /\ HeadIsProxys' /\ AnswerIsOwn' /\ ConnectionHeld'
  BY <1>0 DEF TypeOK, HeadIsProxys, AnswerIsOwn, ConnectionHeld
<1>2. OversizedCostsNothing'
  BY DEF OversizedCostsNothing
<1> QED BY <1>1, <1>2

----------------------------------------------------------------------------
(* The upstream.                                                           *)

\* A failure before the upstream's answer: the proxy's own answer, if it is owed.
LEMMA UpstreamFailsInv ==
    ASSUME IndInv, NEW failure \in Failure, UpstreamFails(failure), UNCHANGED callerVars
    PROVE  IndInv'
<1>0. HeadIsProxys /\ TypeOK /\ ConnectionHeld
  BY DEF IndInv
<1>1. written = <<>> /\ named = {} /\ head = ProxyHead /\ in.declared # "over"
  BY DEF UpstreamFails, HeadIsProxys, OversizedCostsNothing, IndInv
<1>2. UNCHANGED <<in, setup, head, named>> /\ sent' = "closed"
  BY DEF UpstreamFails
<1>3. CASE gone
  BY <1>0, <1>1, <1>2, <1>3, EndedInv DEF UpstreamFails, TypeOK
<1>4. CASE ~ gone
  <2>1. PICK reason, status : HandleError(reason, status, ProxyHead)
    BY <1>1, <1>4 DEF UpstreamFails
  <2>2. /\ stage' = "over" /\ gone' = gone
        /\ gone => written' = <<>>
        /\ ~ gone => \E a : written' = <<a>> /\ a.head = ProxyHead'
    BY <1>0, <1>1, <1>2, <2>1, ErrorAnswers
  <2> QED BY <1>0, <1>1, <1>2, <2>2, EndedInv DEF TypeOK
<1> QED BY <1>3, <1>4

\* A screened head is a head.
LEMMA ScreenedType ==
    ASSUME TypeOK, NEW fields \in SUBSET ResponseField
    PROVE  Screened(fields) \in [ResponseField -> SUBSET {"proxy", "upstream"}]
<1>1. \A f \in ResponseField : head[f] \in SUBSET {"proxy", "upstream"}
  BY DEF TypeOK
<1>2. \A f \in ResponseField : head[f] \cup {"upstream"} \in SUBSET {"proxy", "upstream"}
  BY <1>1
<1> QED BY <1>1, <1>2 DEF Screened

\* The head that goes out is a head.
LEMMA HeadWrittenType ==
    ASSUME TypeOK
    PROVE  HeadWritten(head, named) \in [ResponseField -> SUBSET {"proxy", "upstream"}]
BY DEF TypeOK, HeadWritten

\* The upstream's head arrives.
LEMMA UpstreamAnswersInv ==
    ASSUME IndInv, NEW fields \in SUBSET ResponseField,
           NEW connection \in SUBSET ResponseField,
           UpstreamAnswers(fields, connection), UNCHANGED callerVars
    PROVE  IndInv'
<1> USE DEF IndInv, UpstreamAnswers
<1>0. ProxyHead' = ProxyHead
  BY DEF ProxyHead, ProxySet
<1>1. TypeOK'
  BY ScreenedType DEF TypeOK
<1>2. HeadIsProxys' /\ AnswerIsOwn' /\ ConnectionHeld'
  BY <1>0 DEF HeadIsProxys, AnswerIsOwn, ConnectionHeld
<1>3. OversizedCostsNothing'
  BY DEF OversizedCostsNothing
<1> QED BY <1>1, <1>2, <1>3

\* The upstream's answer starts: it is the first.
LEMMA WritesHeadInv ==
    ASSUME IndInv, WritesHead, UNCHANGED callerVars
    PROVE  IndInv'
<1> USE DEF IndInv, WritesHead
<1>1. TypeOK'
  BY HeadWrittenType DEF TypeOK
<1>2. HeadIsProxys' /\ ConnectionHeld'
  BY DEF HeadIsProxys, ConnectionHeld
<1>3. AnswerIsOwn'
  BY DEF AnswerIsOwn, headersSent
<1>4. OversizedCostsNothing'
  BY DEF OversizedCostsNothing
<1> QED BY <1>1, <1>2, <1>3, <1>4

\* The upstream's answer is complete.
LEMMA AnswerCompletesInv ==
    ASSUME IndInv, AnswerCompletes, UNCHANGED callerVars
    PROVE  IndInv'
<1> USE DEF IndInv, AnswerCompletes
<1>0. ProxyHead' = ProxyHead
  BY DEF ProxyHead, ProxySet
<1>1. TypeOK' /\ HeadIsProxys' /\ AnswerIsOwn' /\ ConnectionHeld'
  BY <1>0 DEF TypeOK, HeadIsProxys, AnswerIsOwn, ConnectionHeld
<1>2. OversizedCostsNothing'
  BY DEF OversizedCostsNothing
<1> QED BY <1>1, <1>2

\* The upstream drops its answer: one that had started is cut for the caller, one
\* that had not is replaced, after the proxy's head is back.
LEMMA AnswerCutInv ==
    ASSUME IndInv, AnswerCut, UNCHANGED callerVars
    PROVE  IndInv'
<1>0. TypeOK /\ AnswerIsOwn /\ in.declared # "over" /\ UNCHANGED <<in, setup>>
  BY DEF IndInv, AnswerCut, OversizedCostsNothing
<1>1. ProxyHead' = ProxyHead
  BY <1>0 DEF ProxyHead, ProxySet
<1>2. CASE gone \/ headersSent
  <2>1. /\ stage' = "over" /\ sent' = "closed" /\ gone' \in BOOLEAN
        /\ UNCHANGED <<head, named, written>>
    BY <1>0, <1>2 DEF AnswerCut, HandleError, TypeOK
  <2>2. TypeOK' /\ HeadIsProxys' /\ AnswerIsOwn' /\ ConnectionHeld'
    BY <1>0, <1>1, <2>1 DEF TypeOK, HeadIsProxys, AnswerIsOwn, ConnectionHeld
  <2>3. OversizedCostsNothing'
    BY <1>0 DEF OversizedCostsNothing
  <2> QED BY <2>2, <2>3 DEF IndInv
<1>3. CASE ~ (gone \/ headersSent)
  <2>1. /\ written = <<>> /\ named' = {} /\ head' = ProxyHead /\ sent' = "closed"
        /\ HandleError("upstream_unavailable", 502, ProxyHead)
    BY <1>3 DEF AnswerCut, RestoredHead, headersSent
  <2>2. /\ stage' = "over" /\ gone' = gone
        /\ gone => written' = <<>>
        /\ ~ gone => \E a : written' = <<a>> /\ a.head = ProxyHead'
    BY <1>0, <2>1, ErrorAnswers
  <2> QED BY <1>0, <2>1, <2>2, ProxyHeadType, EndedInv
<1> QED BY <1>2, <1>3

\* The caller leaves, and the upstream request ends with it.
LEMMA CallerLeavesInv ==
    ASSUME IndInv, CallerLeaves, UNCHANGED callerVars
    PROVE  IndInv'
<1> USE DEF IndInv, CallerLeaves
<1>0. ProxyHead' = ProxyHead
  BY DEF ProxyHead, ProxySet
<1>1. TypeOK' /\ HeadIsProxys' /\ AnswerIsOwn' /\ ConnectionHeld'
  BY <1>0 DEF TypeOK, HeadIsProxys, AnswerIsOwn, ConnectionHeld
<1>2. OversizedCostsNothing'
  BY DEF OversizedCostsNothing, callerVars
<1> QED BY <1>1, <1>2

----------------------------------------------------------------------------
(* The theorems.                                                           *)

\* A step that changes nothing keeps the invariant.
LEMMA StutterInv ==
    ASSUME IndInv, UNCHANGED vars
    PROVE  IndInv'
BY DEF IndInv, vars, stageVars, callerVars, TypeOK, HeadIsProxys, AnswerIsOwn, ConnectionHeld,
       OversizedCostsNothing, ProxyHead, ProxySet

\* Every step keeps the invariant.
LEMMA NextInv ==
    ASSUME IndInv, [Next]_vars
    PROVE  IndInv'
<1>1. CASE HealthcheckAnswers
  BY <1>1, AtOnceInv DEF HealthcheckAnswers
<1>2. CASE NotFound
  BY <1>2, AtOnceInv DEF NotFound
<1>3. CASE PreflightAnswers
  BY <1>3, AtOnceInv, CorsFieldsType DEF PreflightAnswers
<1>4. CASE EntersRouter
  BY <1>4, EntersRouterInv
<1>5. CASE CallerSends
  BY <1>5, CallerSendsInv
<1>6. CASE Guard /\ UNCHANGED callerVars
  BY <1>6, GuardInv
<1>7. CASE ModeForwards /\ UNCHANGED callerVars
  BY <1>7, ModeForwardsInv
<1>8. CASE ModeRefuses /\ UNCHANGED callerVars
  BY <1>8, ModeRefusesInv
<1>9. CASE BodyArrived /\ BodyFails /\ UNCHANGED callerVars
  BY <1>9, BodyFailsInv
<1>10. CASE BodyArrived /\ Sends /\ UNCHANGED callerVars
  BY <1>10, SendsInv
<1>11. CASE (\E failure \in Failure : UpstreamFails(failure)) /\ UNCHANGED callerVars
  BY <1>11, UpstreamFailsInv
<1>12. CASE \E fields, connection \in SUBSET ResponseField :
                UpstreamAnswers(fields, connection) /\ UNCHANGED callerVars
  BY <1>12, UpstreamAnswersInv
<1>13. CASE WritesHead /\ UNCHANGED callerVars
  BY <1>13, WritesHeadInv
<1>14. CASE AnswerCompletes /\ UNCHANGED callerVars
  BY <1>14, AnswerCompletesInv
<1>15. CASE AnswerCut /\ UNCHANGED callerVars
  BY <1>15, AnswerCutInv
<1>16. CASE CallerLeaves /\ UNCHANGED callerVars
  BY <1>16, CallerLeavesInv
<1>17. CASE UNCHANGED vars
  BY <1>17, StutterInv
<1> QED
  BY <1>1, <1>2, <1>3, <1>4, <1>5, <1>6, <1>7, <1>8, <1>9, <1>10, <1>11, <1>12, <1>13,
     <1>14, <1>15, <1>16, <1>17 DEF Next

\* Whatever the requests, the invariant always holds.
THEOREM Invariance == Spec => []IndInv
BY InitInv, NextInv, PTL DEF Spec

\* A request that declares too long a body is never asked for it, and reaches
\* neither the mode nor the upstream (createBodyLimitGuard, continueWithinLimit).
THEOREM OversizedCostsNothingHolds == Spec => []OversizedCostsNothing
<1>1. IndInv => OversizedCostsNothing
  BY DEF IndInv
<1> QED BY <1>1, Invariance, PTL

\* An answer of the proxy's own carries the proxy's head and nothing of the
\* upstream's (refuse, createErrorHandler, restoreHead).
THEOREM RefusalHeadIsOwnHolds == Spec => []RefusalHeadIsOwn
<1>1. IndInv => RefusalHeadIsOwn
  <2> SUFFICES ASSUME IndInv, NEW i \in 1..Len(written), written[i].by = "proxy"
               PROVE  written[i].head = ProxyHead
    BY DEF RefusalHeadIsOwn
  <2>1. written = <<written[1]>> /\ (written[1].by = "proxy" => written[1].head = ProxyHead)
    BY DEF IndInv, AnswerIsOwn
  <2>2. Len(written) = 1
    <3> DEFINE only == written[1]
    <3>1. written = <<only>>
      BY <2>1
    <3> HIDE DEF only
    <3> QED BY <3>1
  <2>3. i = 1
    BY <2>2
  <2> QED BY <2>1, <2>3
<1> QED BY <1>1, Invariance, PTL

----------------------------------------------------------------------------
(* The exchange the server implements (Exchange): its safety part.         *)

\* The abstract variables, as a number of answers and what they stand for.
LEMMA AnswersCount ==
    ASSUME IndInv
    PROVE  Len(written) = IF headersSent THEN 1 ELSE 0
<1>1. CASE written = <<>>
  BY <1>1 DEF headersSent
<1>2. CASE written = <<written[1]>>
  <2>1. Len(<<written[1]>>) = 1 /\ <<written[1]>> # <<>>
    OBVIOUS
  <2> QED BY <1>2, <2>1 DEF headersSent
<1> QED BY <1>1, <1>2 DEF IndInv, AnswerIsOwn

\* Ending an exchange with no answer yet answers a caller that is there, and is
\* the abstract end for one that left.
LEMMA EndedRefines ==
    ASSUME Len(written) = 0, stage # "over", gone \in BOOLEAN,
           stage' = "over", gone' = gone, sent' = IF sent = "open" THEN "closed" ELSE sent,
           gone => sent # "open" /\ written' = <<>>,
           ~ gone => \E a : written' = <<a>>
    PROVE  Promise!Next
<1>1. CASE gone
  BY <1>1 DEF Promise!Next, Promise!Finish
<1>2. CASE ~ gone
  <2>1. Len(written') = 1
    BY <1>2
  <2> QED BY <1>2, <2>1 DEF Promise!Next, Promise!Answer, Promise!Released
<1> QED BY <1>1, <1>2

\* So does a refusal, or an error, before any answer.
LEMMA RefusalRefines ==
    ASSUME IndInv, written = <<>>, stage # "over", NEW reason, NEW status, NEW onto,
           (Refuse(reason, status, onto) /\ gone' = gone) \/ HandleError(reason, status, onto),
           sent' = IF sent = "open" THEN "closed" ELSE sent
    PROVE  Promise!Next
<1>1. gone \in BOOLEAN /\ (gone => sent # "open")
  BY DEF IndInv, TypeOK, ConnectionHeld
<1>2. Refuse(reason, status, onto) /\ gone' = gone
  BY DEF HandleError, headersSent
<1>3. Len(written) = 0 /\ stage' = "over"
  BY <1>2 DEF Refuse
<1>4. gone => written' = <<>>
  BY <1>2 DEF Refuse
<1>5. ~ gone => \E a : written' = <<a>>
  BY <1>2 DEF Refuse
<1> QED BY <1>1, <1>2, <1>3, <1>4, <1>5, EndedRefines

\* A request answered at once is the abstract answer.
LEMMA AtOnceRefines ==
    ASSUME IndInv, stage = "arrival", NEW status, NEW fields, AnswersAtOnce(status, fields)
    PROVE  Promise!Next
<1>1. written = <<>> /\ gone = FALSE /\ sent = "none"
  BY DEF IndInv, TypeOK, HeadIsProxys, ConnectionHeld
<1> QED BY <1>1, EndedRefines DEF AnswersAtOnce

\* Steps that a caller and an upstream do not see.
LEMMA UnseenRefines ==
    ASSUME UNCHANGED <<written, gone, sent>>, stage # "over", stage' # "over"
    PROVE  UNCHANGED Promise!vars
BY DEF Promise!vars

\* The steps up to the upstream request.
LEMMA BeforeRefines ==
    ASSUME IndInv
    PROVE  /\ Guard => [Promise!Next]_(Promise!vars)
           /\ ModeRefuses => Promise!Next
           /\ BodyFails => Promise!Next
           /\ Sends => Promise!Next
<1>1. stage \in {"limit", "mode", "body"} => written = <<>> /\ sent = "none"
  BY DEF IndInv, HeadIsProxys, ConnectionHeld
<1>2. ASSUME Guard PROVE [Promise!Next]_(Promise!vars)
  <2>1. CASE declaredOverLimit
    BY <1>1, <1>2, <2>1, RefusalRefines DEF Guard
  <2>2. CASE ~ declaredOverLimit
    BY <1>2, <2>2, UnseenRefines DEF Guard
  <2> QED BY <2>1, <2>2
<1>3. ASSUME ModeRefuses PROVE Promise!Next
  <2>1. gone \in BOOLEAN
    BY DEF IndInv, TypeOK
  <2>2. ~ gone => \E a : written' = <<a>>
    BY <1>1, <1>3 DEF ModeRefuses
  <2> QED BY <1>1, <1>3, <2>1, <2>2, EndedRefines DEF ModeRefuses
<1>4. ASSUME BodyFails PROVE Promise!Next
  BY <1>1, <1>4, RefusalRefines DEF BodyFails
<1>5. ASSUME Sends PROVE Promise!Next
  <2>1. Len(written) = 0 /\ gone = FALSE
    BY <1>1, <1>5 DEF Sends, IndInv, TypeOK
  <2> QED BY <1>1, <1>5, <2>1 DEF Sends, Promise!Next, Promise!Connect
<1> QED BY <1>2, <1>3, <1>4, <1>5

\* The steps of the upstream, and the caller's leaving.
LEMMA AfterRefines ==
    ASSUME IndInv
    PROVE  /\ \A failure \in Failure : UpstreamFails(failure) => Promise!Next
           /\ WritesHead => Promise!Next
           /\ AnswerCompletes => Promise!Next
           /\ AnswerCut => Promise!Next
           /\ CallerLeaves => Promise!Next
<1>1. /\ gone \in BOOLEAN
      /\ stage = "waiting" => written = <<>>
      /\ stage \in {"waiting", "piping"} => sent = IF gone THEN "closed" ELSE "open"
  BY DEF IndInv, TypeOK, HeadIsProxys, ConnectionHeld
<1>2. Len(written) = IF headersSent THEN 1 ELSE 0
  BY AnswersCount
<1>3. ASSUME NEW failure \in Failure, UpstreamFails(failure) PROVE Promise!Next
  <2>1. CASE gone
    BY <1>1, <1>3, <2>1 DEF UpstreamFails, Promise!Next, Promise!Finish
  <2>2. CASE ~ gone
    BY <1>1, <1>3, <2>2, RefusalRefines DEF UpstreamFails
  <2> QED BY <2>1, <2>2
<1>4. ASSUME WritesHead PROVE Promise!Next
  <2>1. written = <<>> /\ Len(written) = 0 /\ ~ gone /\ sent = "open"
    BY <1>1, <1>2, <1>4 DEF WritesHead, headersSent
  <2>2. Len(written') = 1
    BY <1>4, <2>1 DEF WritesHead
  <2> QED BY <1>4, <2>1, <2>2 DEF WritesHead, Promise!Next, Promise!Relay
<1>5. ASSUME AnswerCompletes PROVE Promise!Next
  <2>1. Promise!End(FALSE)
    BY <1>1, <1>2, <1>5 DEF AnswerCompletes, Promise!End
  <2> QED BY <2>1 DEF Promise!Next
<1>6. ASSUME AnswerCut PROVE Promise!Next
  <2>1. CASE gone
    BY <1>1, <1>6, <2>1 DEF AnswerCut, Promise!Next, Promise!Finish
  <2>2. CASE ~ gone /\ headersSent
    <3>1. Promise!End(TRUE)
      BY <1>1, <1>2, <1>6, <2>2 DEF AnswerCut, HandleError, Promise!End
    <3> QED BY <3>1 DEF Promise!Next
  <2>3. CASE ~ gone /\ ~ headersSent
    BY <1>1, <1>6, <2>3, RefusalRefines DEF AnswerCut, headersSent
  <2> QED BY <2>1, <2>2, <2>3
<1>7. ASSUME CallerLeaves PROVE Promise!Next
  BY <1>1, <1>7 DEF CallerLeaves, Promise!Next, Promise!Leave, Promise!Released
<1> QED BY <1>3, <1>4, <1>5, <1>6, <1>7

\* Every step is one of the exchange's, or is not seen.
LEMMA StepRefines ==
    ASSUME IndInv, [Next]_vars
    PROVE  [Promise!Next]_(Promise!vars)
<1>1. CASE HealthcheckAnswers \/ NotFound \/ PreflightAnswers
  BY <1>1, AtOnceRefines DEF HealthcheckAnswers, NotFound, PreflightAnswers
<1>2. CASE EntersRouter
  BY <1>2, UnseenRefines DEF EntersRouter
<1>3. CASE CallerSends
  BY <1>3, UnseenRefines DEF CallerSends, stageVars
<1>4. CASE ModeForwards
  BY <1>4, UnseenRefines DEF ModeForwards
<1>5. CASE \E fields, connection \in SUBSET ResponseField : UpstreamAnswers(fields, connection)
  BY <1>5, UnseenRefines DEF UpstreamAnswers
<1>6. CASE Guard \/ ModeRefuses \/ BodyFails \/ Sends
  BY <1>6, BeforeRefines
<1>7. CASE \/ \E failure \in Failure : UpstreamFails(failure)
           \/ WritesHead \/ AnswerCompletes \/ AnswerCut \/ CallerLeaves
  BY <1>7, AfterRefines
<1>8. CASE UNCHANGED vars
  BY <1>8 DEF vars, stageVars, Promise!vars
<1> QED
  BY <1>1, <1>2, <1>3, <1>4, <1>5, <1>6, <1>7, <1>8 DEF Next

\* The server answers a request at most once, opens one upstream connection, and
\* holds it only while there is a caller to answer; it ends an exchange only with
\* its caller answered or gone (the safety part of ImplementsExchange).
THEOREM RefinesExchange == Spec => Promise!Init /\ [][Promise!Next]_(Promise!vars)
<1>1. Init => Promise!Init
  BY DEF Init, Promise!Init
<1>2. IndInv /\ [Next]_vars => [Promise!Next]_(Promise!vars)
  BY StepRefines
<1> QED BY <1>1, <1>2, Invariance, PTL DEF Spec

----------------------------------------------------------------------------
(* The head of a proxied answer, and the outbound fields.                  *)

\* The stages before the upstream's set none of the other fields.
RouterFields == ProxySet \subseteq {"vary", "grant", "x-request-id"}

\* A head that keeps what the proxy decided.
Keeps(h) ==
    /\ \A f \in ProxySet : "proxy" \in h[f] /\ (f # "vary" => h[f] = {"proxy"})
    /\ h["hop"] = {}
    /\ setup.cors => "upstream" \notin h["grant"]

\* The upstream's head was screened when it arrived.
HeadScreened == stage = "piping" => Keeps(head)

\* From the router on, the request id is the one the proxy settled on; before,
\* nothing is sent.
IdSettled ==
    /\ stage = "arrival" => outbound = None
    /\ stage \in {"limit", "mode", "body"} =>
            "x-request-id" \in ProxySet /\ "x-request-id" \in in.fields

ScreenInv == RouterFields /\ HeadScreened /\ ProxiedHeadIsScreened

OutInv == IdSettled /\ OutboundIsProxys

\* What a refusal or an error adds before any answer.
LEMMA RefusalIsProxys ==
    ASSUME written = <<>>, NEW reason, NEW status, NEW onto,
           Refuse(reason, status, onto) \/ HandleError(reason, status, onto)
    PROVE  stage' = "over" /\ (written' = <<>> \/ \E a : written' = <<a>> /\ a.by = "proxy")
<1>1. Refuse(reason, status, onto)
  BY DEF HandleError, headersSent
<1>2. CASE gone
  BY <1>1, <1>2 DEF Refuse
<1>3. CASE ~ gone
  BY <1>1, <1>3 DEF Refuse
<1> QED BY <1>2, <1>3

\* A step leaves the heads alone, or ends without an answer of the upstream's, or
\* is one of the two that handle the upstream's head.
Untouched ==
    UNCHANGED <<setup, head, named, written>> /\ (stage' = "piping" => stage = "piping")

OwnAnswer ==
    /\ written' = <<>> \/ \E a : written' = <<a>> /\ a.by = "proxy"
    /\ stage' # "piping"
    /\ setup' = setup \/ setup'.fields \subseteq {"vary", "grant", "x-request-id"}

\* The steps before the body limit put none of the upstream's fields on a head.
LEMMA EarlyHeads ==
    ASSUME IndInv, HealthcheckAnswers \/ NotFound \/ PreflightAnswers \/ EntersRouter
    PROVE  OwnAnswer
<1>1. setup \in Setup /\ (stage = "arrival" => written = <<>>)
  BY DEF IndInv, TypeOK, HeadIsProxys
<1>2. CorsFields \subseteq {"vary", "grant"}
  BY DEF CorsFields
<1>3. \A F : [setup EXCEPT !.fields = F].fields = F
  BY <1>1 DEF Setup
<1>4. ASSUME NEW status, NEW F \in SUBSET {"vary", "grant"}, AnswersAtOnce(status, F)
      PROVE  OwnAnswer
  BY <1>3, <1>4 DEF AnswersAtOnce, OwnAnswer
<1>5. CASE HealthcheckAnswers
  BY <1>4, <1>5 DEF HealthcheckAnswers
<1>6. CASE NotFound
  BY <1>4, <1>6 DEF NotFound
<1>7. CASE PreflightAnswers
  BY <1>2, <1>4, <1>7 DEF PreflightAnswers
<1>8. CASE EntersRouter
  BY <1>1, <1>2, <1>8 DEF EntersRouter, SettledId, OwnAnswer, Setup
<1> QED BY <1>5, <1>6, <1>7, <1>8

\* Nor do the later ones, those that handle the upstream's head aside.
LEMMA LaterHeads ==
    ASSUME IndInv,
           \/ CallerSends \/ Guard \/ ModeForwards \/ ModeRefuses \/ BodyFails \/ Sends
           \/ \E failure \in Failure : UpstreamFails(failure)
           \/ AnswerCompletes \/ AnswerCut \/ CallerLeaves
           \/ UNCHANGED vars
    PROVE  Untouched \/ OwnAnswer
<1>1. stage \in {"limit", "mode", "body", "waiting"} => written = <<>>
  BY DEF IndInv, HeadIsProxys
<1>2. CASE CallerSends \/ ModeForwards \/ Sends \/ AnswerCompletes \/ CallerLeaves \/ UNCHANGED vars
  BY <1>2 DEF CallerSends, ModeForwards, Sends, AnswerCompletes, CallerLeaves, Untouched, vars, stageVars
<1>3. CASE Guard
  <2>1. CASE declaredOverLimit
    BY <1>1, <1>3, <2>1, RefusalIsProxys DEF Guard, OwnAnswer
  <2>2. CASE ~ declaredOverLimit
    BY <1>3, <2>2 DEF Guard, Untouched
  <2> QED BY <2>1, <2>2
<1>4. CASE ModeRefuses
  BY <1>1, <1>4 DEF ModeRefuses, OwnAnswer
<1>5. CASE BodyFails
  BY <1>1, <1>5, RefusalIsProxys DEF BodyFails, OwnAnswer
<1>6. ASSUME NEW failure \in Failure, UpstreamFails(failure) PROVE Untouched \/ OwnAnswer
  <2>1. CASE gone
    BY <1>6, <2>1 DEF UpstreamFails, Untouched
  <2>2. CASE ~ gone
    BY <1>1, <1>6, <2>2, RefusalIsProxys DEF UpstreamFails, OwnAnswer
  <2> QED BY <2>1, <2>2
<1>7. CASE AnswerCut
  <2>1. CASE gone \/ headersSent
    BY <1>7, <2>1 DEF AnswerCut, HandleError, Untouched
  <2>2. CASE ~ (gone \/ headersSent)
    BY <1>7, <2>2, RefusalIsProxys DEF AnswerCut, headersSent, OwnAnswer
  <2> QED BY <2>1, <2>2
<1> QED BY <1>2, <1>3, <1>4, <1>5, <1>6, <1>7

\* Screening keeps what the proxy decided.
LEMMA ScreenedKeeps ==
    ASSUME IndInv, RouterFields, head = ProxyHead, NEW fields \in SUBSET ResponseField
    PROVE  LET h == Screened(fields)
           IN  /\ \A f \in ProxySet : "proxy" \in h[f] /\ (f # "vary" => h[f] = {"proxy"})
               /\ h["hop"] = {}
               /\ setup.cors => "upstream" \notin h["grant"]
<1>0. ProxySet \subseteq ResponseField /\ "hop" \notin ProxySet
  BY DEF RouterFields, ResponseField
<1>1. \A f \in ProxySet : head[f] = {"proxy"}
  BY <1>0 DEF ProxyHead
<1>2. ASSUME NEW f \in ProxySet
      PROVE  Screened(fields)[f] = head[f] \/ (f = "vary" /\ Screened(fields)[f] = head[f] \cup {"upstream"})
  BY <1>0 DEF Screened
<1>3. Screened(fields)["hop"] = head["hop"] /\ head["hop"] = {}
  BY <1>0 DEF Screened, ProxyHead, ResponseField
<1>4. setup.cors => Screened(fields)["grant"] = head["grant"]
  BY DEF Screened, ResponseField
<1>5. "upstream" \notin head["grant"]
  BY DEF ProxyHead, ResponseField
<1> QED BY <1>1, <1>2, <1>3, <1>4, <1>5

\* So does taking off the fields the upstream's Connection names.
LEMMA WrittenKeeps ==
    ASSUME IndInv, RouterFields, Keeps(head)
    PROVE  /\ Keeps(HeadWritten(head, named))
           /\ \A f \in named : "upstream" \notin HeadWritten(head, named)[f]
<1> DEFINE h == HeadWritten(head, named)
<1>0. ProxySet \subseteq ResponseField /\ "hop" \notin ProxySet /\ named \subseteq ResponseField
  BY DEF RouterFields, ResponseField, IndInv, TypeOK
<1>1. \A f \in ResponseField :
          /\ f \in named /\ f \in ProxySet => h[f] = {"proxy"}
          /\ f \in named /\ f \notin ProxySet => h[f] = {}
          /\ f \notin named => h[f] = head[f]
  BY DEF HeadWritten
<1> HIDE DEF h
<1>2. \A f \in ProxySet : "proxy" \in h[f] /\ (f # "vary" => h[f] = {"proxy"})
  BY <1>0, <1>1 DEF Keeps
<1>3. h["hop"] = {}
  BY <1>0, <1>1 DEF Keeps, ResponseField
<1>4. setup.cors => "upstream" \notin h["grant"]
  BY <1>0, <1>1 DEF Keeps, ResponseField
<1>5. \A f \in named : "upstream" \notin h[f]
  BY <1>0, <1>1
<1> QED BY <1>2, <1>3, <1>4, <1>5 DEF Keeps, h

\* Screening is kept by every step.
LEMMA NextScreens ==
    ASSUME IndInv, IndInv', ScreenInv, [Next]_vars
    PROVE  ScreenInv'
<1> USE DEF ScreenInv
<1>1. CASE Untouched
  BY <1>1 DEF Untouched, RouterFields, HeadScreened, Keeps, ProxiedHeadIsScreened, ProxySet
<1>2. CASE OwnAnswer
  <2>1. RouterFields' /\ HeadScreened'
    BY <1>2 DEF OwnAnswer, RouterFields, HeadScreened, ProxySet
  <2>2. \A i \in 1..Len(written') : written'[i].by # "upstream"
    BY <1>2 DEF OwnAnswer
  <2>3. ProxiedHeadIsScreened'
    BY <2>2 DEF ProxiedHeadIsScreened
  <2> QED BY <2>1, <2>3
<1>3. ASSUME NEW fields \in SUBSET ResponseField, NEW connection, UpstreamAnswers(fields, connection)
      PROVE  ScreenInv'
  <2>1. head = ProxyHead /\ written = <<>>
    BY <1>3 DEF UpstreamAnswers, IndInv, HeadIsProxys
  <2>2. RouterFields' /\ ProxiedHeadIsScreened'
    BY <1>3, <2>1 DEF UpstreamAnswers, RouterFields, ProxySet, ProxiedHeadIsScreened
  <2>3. HeadScreened'
    BY <1>3, <2>1, ScreenedKeeps DEF UpstreamAnswers, HeadScreened, Keeps, ProxySet
  <2> QED BY <2>2, <2>3
<1>4. CASE WritesHead
  <2>1. Keeps(head) /\ written = <<>>
    BY <1>4 DEF WritesHead, HeadScreened, headersSent
  <2>2. /\ Keeps(HeadWritten(head, named))
        /\ \A f \in named : "upstream" \notin HeadWritten(head, named)[f]
    BY <2>1, WrittenKeeps
  <2>3. head' = HeadWritten(head, named) /\ UNCHANGED <<setup, named, stage>>
    BY <1>4 DEF WritesHead
  <2>4. RouterFields' /\ HeadScreened'
    BY <2>2, <2>3 DEF RouterFields, HeadScreened, Keeps, ProxySet
  <2>5. \A i \in 1..Len(written') : written'[i].head = head'
    BY <1>4, <2>1, <2>3 DEF WritesHead
  <2>6. ProxiedHeadIsScreened'
    BY <2>2, <2>3, <2>5 DEF ProxiedHeadIsScreened, Keeps, ProxySet
  <2> QED BY <2>4, <2>6
<1> QED BY <1>1, <1>2, <1>3, <1>4, EarlyHeads, LaterHeads DEF Next

\* A proxied answer keeps what the proxy decided, whatever the upstream's head
\* (screenUpstreamHead).
THEOREM ProxiedHeadIsScreenedHolds == Spec => []ProxiedHeadIsScreened
<1>1. Init => ScreenInv
  BY DEF Init, ScreenInv, RouterFields, HeadScreened, ProxiedHeadIsScreened, ProxySet
<1>2. IndInv /\ IndInv' /\ ScreenInv /\ [Next]_vars => ScreenInv'
  BY NextScreens
<1>3. ScreenInv => ProxiedHeadIsScreened
  BY DEF ScreenInv
<1> QED BY <1>1, <1>2, <1>3, Invariance, PTL DEF Spec

\* The fields that are decided whatever the caller's Connection names.
LEMMA DecoratedIsProxys ==
    ASSUME "x-request-id" \in in.fields
    PROVE  /\ "authorization" \in in.fields => Decorated["authorization"] = <<"received">>
           /\ Decorated["x-request-id"] = <<setup.id>>
           /\ \A f \in {"via", "x-forwarded-for"} : Decorated[f][Len(Decorated[f])] = "proxy"
           /\ \A f \in {"x-real-ip", "x-forwarded-host"} : Decorated[f] \in {<<>>, <<"proxy">>}
           /\ \A f \in {"forwarded", "hop", "framing"} : Decorated[f] = <<>>
<1>1. /\ "x-request-id" \in Kept
      /\ "authorization" \in in.fields => "authorization" \in Kept
      /\ "hop" \notin Kept /\ "framing" \notin Kept
  BY DEF Kept
<1>2. "authorization" \in in.fields => Decorated["authorization"] = <<"received">>
  BY <1>1 DEF Decorated, RequestField
<1>3. Decorated["x-request-id"] = <<setup.id>>
  BY <1>1 DEF Decorated, RequestField
<1>4. ASSUME NEW f \in {"via", "x-forwarded-for"} PROVE Decorated[f][Len(Decorated[f])] = "proxy"
  <2>1. Decorated[f] = (IF f \in Kept THEN <<"received">> ELSE <<>>) \o <<"proxy">>
    BY DEF Decorated, RequestField
  <2>2. CASE f \in Kept
    <3>1. Decorated[f] = <<"received">> \o <<"proxy">>
      BY <2>1, <2>2
    <3> DEFINE t == <<"received">> \o <<"proxy">>
    <3>2. Len(t) = 2 /\ t[2] = "proxy"
      OBVIOUS
    <3> HIDE DEF t
    <3>3. Decorated[f] = t
      BY <3>1 DEF t
    <3> QED BY <3>2, <3>3
  <2>3. CASE f \notin Kept
    <3>1. Decorated[f] = <<>> \o <<"proxy">>
      BY <2>1, <2>3
    <3> DEFINE t == <<>> \o <<"proxy">>
    <3>2. Len(t) = 1 /\ t[1] = "proxy"
      OBVIOUS
    <3> HIDE DEF t
    <3>3. Decorated[f] = t
      BY <3>1 DEF t
    <3> QED BY <3>2, <3>3
  <2> QED BY <2>2, <2>3
<1>5. \A f \in {"x-real-ip", "x-forwarded-host"} : Decorated[f] \in {<<>>, <<"proxy">>}
  BY DEF Decorated, RequestField
<1>6. \A f \in {"forwarded", "hop", "framing"} : Decorated[f] = <<>>
  BY <1>1 DEF Decorated, RequestField
<1> QED BY <1>2, <1>3, <1>4, <1>5, <1>6

\* A step leaves what was sent, and what it was sent of, alone, before the router
\* is entered nothing was sent, and Sends sends what is decorated.
LEMMA NextOut ==
    ASSUME IndInv, OutInv, [Next]_vars
    PROVE  OutInv'
<1> USE DEF OutInv
<1>1. CASE UNCHANGED <<in, setup, outbound>> /\ stage' # "arrival"
             /\ (stage' \in {"limit", "mode", "body"} => stage \in {"limit", "mode", "body"})
  BY <1>1 DEF IdSettled, OutboundIsProxys, ProxySet
<1>2. CASE UNCHANGED outbound /\ stage = "arrival" /\ stage' = "over"
  BY <1>2 DEF IdSettled, OutboundIsProxys
<1>3. CASE EntersRouter
  <2>1. "x-request-id" \in ProxySet' /\ "x-request-id" \in in'.fields
    BY <1>3 DEF EntersRouter, SettledId, ProxySet, IndInv, TypeOK, Setup, Input
  <2> QED BY <1>3, <2>1 DEF EntersRouter, IdSettled, OutboundIsProxys
<1>4. CASE Sends
  <2>1. UNCHANGED <<in, setup>> /\ outbound' = Decorated /\ stage' = "waiting"
    BY <1>4 DEF Sends
  <2>2. "x-request-id" \in ProxySet /\ "x-request-id" \in in.fields
    BY <1>4 DEF Sends, IdSettled
  <2> QED BY <2>1, <2>2, DecoratedIsProxys DEF IdSettled, OutboundIsProxys, ProxySet
<1>5. CASE UNCHANGED vars
  BY <1>5 DEF vars, stageVars, IdSettled, OutboundIsProxys, ProxySet
<1>6. CASE HealthcheckAnswers \/ NotFound \/ PreflightAnswers
  BY <1>2, <1>6 DEF HealthcheckAnswers, NotFound, PreflightAnswers, AnswersAtOnce
<1>7. CASE CallerSends \/ ModeForwards \/ ModeRefuses \/ WritesHead \/ AnswerCompletes \/ CallerLeaves
  BY <1>1, <1>7 DEF CallerSends, ModeForwards, ModeRefuses, WritesHead, AnswerCompletes,
                    CallerLeaves, stageVars
<1>8. CASE Guard \/ BodyFails \/ AnswerCut
  BY <1>1, <1>8 DEF Guard, BodyFails, AnswerCut, Refuse, HandleError
<1>9. CASE \E failure \in Failure : UpstreamFails(failure)
  BY <1>1, <1>9 DEF UpstreamFails, Refuse, HandleError
<1>10. CASE \E fields, connection \in SUBSET ResponseField : UpstreamAnswers(fields, connection)
  BY <1>1, <1>10 DEF UpstreamAnswers
<1> QED BY <1>3, <1>4, <1>5, <1>6, <1>7, <1>8, <1>9, <1>10 DEF Next

\* What the upstream is told does not depend on what the caller names in
\* Connection (proxyReqOptDecorator, createRequestIdMiddleware).
THEOREM OutboundIsProxysHolds == Spec => []OutboundIsProxys
<1>1. Init => OutInv
  BY DEF Init, OutInv, IdSettled, OutboundIsProxys
<1>2. IndInv /\ OutInv /\ [Next]_vars => OutInv'
  BY NextOut
<1>3. OutInv => OutboundIsProxys
  BY DEF OutInv
<1> QED BY <1>1, <1>2, <1>3, Invariance, PTL DEF Spec

----------------------------------------------------------------------------
(* The log.                                                                *)

Reason == {"body_too_large", "request_failed", "upstream_unavailable"}

LogType == log \in Seq(Reason)

\* The log grows by one reason, which does not blame the upstream for what a
\* caller that left did.
Logged ==
    \/ UNCHANGED log
    \/ \E reason \in Reason : log' = Append(log, reason) /\ (gone => reason # "upstream_unavailable")

\* What an answer in place of forwarding, or an error, logs.
LEMMA RefusalLogs ==
    ASSUME NEW reason \in Reason, NEW status, NEW onto,
           Refuse(reason, status, onto) \/ HandleError(reason, status, onto),
           gone => reason # "upstream_unavailable"
    PROVE  Logged
BY DEF Refuse, HandleError, Logged

\* Every step logs so.
LEMMA NextLogs ==
    ASSUME [Next]_vars
    PROVE  Logged
<1> USE DEF Reason
<1>1. CASE HealthcheckAnswers \/ NotFound \/ PreflightAnswers \/ EntersRouter \/ CallerSends
  BY <1>1 DEF HealthcheckAnswers, NotFound, PreflightAnswers, AnswersAtOnce, EntersRouter,
              CallerSends, stageVars, Logged
<1>2. CASE ModeForwards \/ ModeRefuses \/ Sends \/ WritesHead \/ AnswerCompletes \/ CallerLeaves
  BY <1>2 DEF ModeForwards, ModeRefuses, Sends, WritesHead, AnswerCompletes, CallerLeaves, Logged
<1>3. CASE \E fields, connection \in SUBSET ResponseField : UpstreamAnswers(fields, connection)
  BY <1>3 DEF UpstreamAnswers, Logged
<1>4. CASE UNCHANGED vars
  BY <1>4 DEF vars, stageVars, Logged
<1>5. CASE Guard
  <2>1. CASE declaredOverLimit
    BY <1>5, <2>1, RefusalLogs DEF Guard
  <2>2. CASE ~ declaredOverLimit
    BY <1>5, <2>2 DEF Guard, Logged
  <2> QED BY <2>1, <2>2
<1>6. CASE BodyFails
  BY <1>6, RefusalLogs DEF BodyFails
<1>7. ASSUME NEW failure \in Failure, UpstreamFails(failure) PROVE Logged
  <2>1. CASE gone
    BY <1>7, <2>1 DEF UpstreamFails, Logged
  <2>2. CASE ~ gone
    <3>1. ReasonOf(failure) \in Reason
      BY DEF ReasonOf
    <3> QED BY <1>7, <2>2, <3>1, RefusalLogs DEF UpstreamFails
  <2> QED BY <2>1, <2>2
<1>8. CASE AnswerCut
  <2>1. CASE gone
    BY <1>8, <2>1 DEF AnswerCut, Logged
  <2>2. CASE ~ gone
    BY <1>8, <2>2, RefusalLogs DEF AnswerCut
  <2> QED BY <2>1, <2>2
<1> QED BY <1>1, <1>2, <1>3, <1>4, <1>5, <1>6, <1>7, <1>8 DEF Next

\* The last reason logged is the one just logged.
LEMMA LastLogged ==
    ASSUME log \in Seq(Reason), NEW reason \in Reason, log' = Append(log, reason)
    PROVE  log' \in Seq(Reason) /\ log'[Len(log')] = reason
OBVIOUS

\* A caller that leaves is not logged as an upstream failure (proxyErrorHandler,
\* watchAnswer).
THEOREM LeavingIsNoFailureHolds == Spec => LeavingIsNoFailure
<1>1. Init => LogType
  BY DEF Init, LogType
<1>2. ASSUME LogType, [Next]_vars
      PROVE  LogType' /\ (log' # log /\ log'[Len(log')] = "upstream_unavailable" => ~ gone)
  <2>1. CASE UNCHANGED log
    BY <1>2, <2>1 DEF LogType
  <2>2. ASSUME NEW reason \in Reason, log' = Append(log, reason),
               gone => reason # "upstream_unavailable"
        PROVE  /\ LogType'
               /\ log'[Len(log')] = "upstream_unavailable" => ~ gone
    BY <1>2, <2>2, LastLogged DEF LogType
  <2> QED BY <1>2, <2>1, <2>2, NextLogs DEF Logged
<1>3. LogType /\ [Next]_vars => LogType'
  BY <1>2
<1>4. LogType /\ [Next]_vars =>
        [log' # log /\ log'[Len(log')] = "upstream_unavailable" => ~ gone]_stageVars
  BY <1>2
<1> QED BY <1>1, <1>3, <1>4, PTL DEF Spec, LeavingIsNoFailure
=============================================================================
