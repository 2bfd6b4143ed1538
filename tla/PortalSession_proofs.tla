------------------------ MODULE PortalSession_proofs ------------------------
(***************************************************************************)
(* Safety of one portal session, for any number of reports and whatever    *)
(* the browser does: types, one submission and one refusal per sign-in,    *)
(* nothing left on the page, no reports without a session.                 *)
(***************************************************************************)
EXTENDS PortalSession, TLAPS

(* A sign-in up to its form, and from its form on.                         *)
Before == {"newContext", "newPage", "challenge", "solve", "observe", "type", "token"}
Signing == {"type", "token", "submit", "landed", "verify", "finish", "report"}
Last == {"finish", "report", "rest"}

(* The listeners and the handler are there only while they are needed.     *)
Attached ==
  /\ watch => op.at \in Signing
  /\ route # "off" => op.at = "submit" /\ http
  /\ op.at = "token" => ~http
  /\ http /\ op.at = "submit" => route # "off"

(* What has been sent, and refused, by the place the operation is at.      *)
Submissions ==
  /\ op.at \in Before \/ route = "waiting" => op.sent = 0
  /\ http => op.sent <= 1
  /\ op.refusals # 0 => op.refusals = 1 /\ op.result = "refused" /\ op.at \in Last

(* Reports are read, and kept, in a signed-in session.                     *)
Reads ==
  closing = "no" /\ (op.at \in {"shell", "fetch"} \/ cache # "none") => authenticated

IInv == TypeOK /\ Attached /\ Submissions /\ Reads

----------------------------------------------------------------------------
(* What a step does to the operation, as far as the invariant reads it.    *)

Keeps(o, n, at, result) ==
  /\ n \in Operation /\ n.at = at /\ n.result = result
  /\ n.sent = o.sent /\ n.refusals = o.refusals

(* A named place, and a named result, is one of the set.                   *)
LEMMA GoesKeeps ==
  ASSUME TypeOK, NEW at \in Places, Goes(at)
  PROVE  Keeps(op, op', at, op.result)
  BY DEF TypeOK, Goes, Keeps, Operation

(* An operation that is over keeps what it has sent and its result.        *)
LEMMA OverKeeps == TypeOK /\ Over => Keeps(op, op', "rest", op.result)
  BY DEF TypeOK, Over, Keeps, Operation, Places

(* An attempt that ends keeps what it has sent.                            *)
LEMMA ResultKeeps ==
  ASSUME TypeOK, NEW result \in Results, Result(result)
  PROVE  Keeps(op, op', "finish", result)
  BY DEF TypeOK, Result, Keeps, Operation, Places

(* An operation begins with nothing sent and nothing refused.              *)
LEMMA RestIsOperation ==
  /\ Rest \in Operation
  /\ Rest.at = "rest" /\ Rest.sent = 0 /\ Rest.refusals = 0
  BY ReportsAssumption DEF Rest, Operation, Places, Kinds, Results

(* So it does, wherever its caller starts it.                              *)
LEMMA BeginOperation ==
  ASSUME NEW at \in Places, NEW kind \in Kinds, NEW log \in BOOLEAN,
         \/ op' = [Rest EXCEPT !.at = at, !.kind = kind, !.log = log]
         \/ op' = [Rest EXCEPT !.at = at, !.kind = kind]
  PROVE  op' \in Operation /\ op'.at = at /\ op'.sent = 0 /\ op'.refusals = 0
  BY RestIsOperation DEF Operation

(* Another attempt begins with nothing sent, after a challenge not met.    *)
LEMMA RetryKeeps ==
  ASSUME NEW o \in Operation, Retry(o)
  PROVE  \/ Keeps(o, op', "rest", o.result)
         \/ /\ op' \in Operation /\ op'.at = "challenge" /\ op'.sent = 0
            /\ op'.refusals = o.refusals /\ op'.result = o.result /\ o.result # "refused"
<1>1. CASE Again(o.result) /\ o.attempt < MaxAttempts
  <2>1. op' = [o EXCEPT !.at = "challenge", !.attempt = o.attempt + 1, !.sent = 0]
    BY <1>1 DEF Retry
  <2>2. o.attempt + 1 \in Nat /\ o.result # "refused"
    BY <1>1 DEF Again, Operation
  <2> QED
    BY <2>1, <2>2 DEF Operation, Places
<1>2. CASE ~(Again(o.result) /\ o.attempt < MaxAttempts)
  BY <1>2 DEF Retry, Keeps, Operation, Places
<1> QED
  BY <1>1, <1>2

(* A report more, or one that failed, is neither sent nor refused.         *)
LEMMA FetchKeeps ==
  ASSUME NEW o \in Operation, NEW fetched \in 0 .. MaxReports, NEW whole \in BOOLEAN
  PROVE  Keeps(o, [o EXCEPT !.fetched = fetched, !.whole = whole], o.at, o.result)
  BY DEF Keeps, Operation

----------------------------------------------------------------------------
(* Before any operation the invariant holds.                               *)
LEMMA InitIInv == Init => IInv
<1> SUFFICES ASSUME Init PROVE IInv
  OBVIOUS
<1>1. TypeOK
  BY RestIsOperation DEF Init, TypeOK
<1>2. Attached /\ Reads
  BY RestIsOperation DEF Init, Attached, Reads
<1>3. Submissions
  BY RestIsOperation DEF Init, Submissions
<1> QED
  BY <1>1, <1>2, <1>3 DEF IInv

(* An operation begins on a page where nothing is left of the last one.    *)
LEMMA StartIInv == IInv /\ Start => IInv'
<1> SUFFICES ASSUME IInv, Start PROVE IInv'
  OBVIOUS
<1>a. /\ op' \in Operation /\ op'.sent = 0 /\ op'.refusals = 0
      /\ op'.at \in {"newContext", "challenge", "observe", "type", "shell"}
      /\ op'.at = "shell" => authenticated
      /\ UNCHANGED <<settings, browser, session, watch, route>> /\ op.at = "rest"
  <2>1. \E at \in {"newContext", "challenge", "observe", "type", "shell"},
           kind \in Kinds, log \in BOOLEAN :
          /\ \/ op' = [Rest EXCEPT !.at = at, !.kind = kind, !.log = log]
             \/ op' = [Rest EXCEPT !.at = at, !.kind = kind]
          /\ at = "shell" => authenticated
    BY DEF Start, Begin, Kinds
  <2>2. {"newContext", "challenge", "observe", "type", "shell"} \subseteq Places
    BY DEF Places
  <2>3. UNCHANGED <<settings, browser, session, watch, route>> /\ op.at = "rest"
    BY DEF Start
  <2> QED
    BY <2>1, <2>2, <2>3, BeginOperation
<1>1. TypeOK'
  BY <1>a DEF IInv, TypeOK, settings, browser, session
<1>2. Attached'
  BY <1>a DEF IInv, Attached, Signing, TypeOK, settings, browser, session
<1>3. Submissions'
  BY <1>a DEF IInv, Submissions, Before, Last, TypeOK, Attached, settings,
       browser, session
<1>4. Reads'
  BY <1>a DEF IInv, Reads, TypeOK, settings, browser, session
<1> QED
  BY <1>1, <1>2, <1>3, <1>4 DEF IInv

(* Opening a page and asking for a challenge change no other field.        *)
LEMMA OpenIInv == IInv /\ (NewContext \/ NewPage \/ Challenge) => IInv'
<1> SUFFICES ASSUME IInv, NewContext \/ NewPage \/ Challenge PROVE IInv'
  OBVIOUS
<1>a. /\ \E at \in {"newPage", "challenge", "solve", "rest"} : Keeps(op, op', at, op.result)
      /\ op.at \in {"newContext", "newPage", "challenge"}
  BY GoesKeeps, OverKeeps DEF NewContext, NewPage, Challenge, IInv, Places
<1>1. TypeOK'
  BY <1>a DEF NewContext, NewPage, Challenge, IInv, TypeOK, Keeps, settings,
       browser, session
<1>2. Attached'
  BY <1>a DEF NewContext, NewPage, Challenge, IInv, Attached, Signing, TypeOK,
       Keeps, settings, browser, session
<1>3. Submissions'
  BY <1>a DEF NewContext, NewPage, Challenge, IInv, Submissions, Before, Last,
       TypeOK, Attached, Keeps, settings, browser, session
<1>4. Reads'
  BY <1>a DEF NewContext, NewPage, Challenge, IInv, Reads, TypeOK, Keeps,
       settings, browser, session
<1> QED
  BY <1>1, <1>2, <1>3, <1>4 DEF IInv

(* An unreadable image may be followed by another attempt.                 *)
LEMMA SolveIInv == IInv /\ Solve => IInv'
<1> SUFFICES ASSUME IInv, Solve PROVE IInv'
  OBVIOUS
<1>a. op.at = "solve" /\ op.sent = 0 /\ op.refusals = 0
  BY DEF Solve, IInv, Submissions, Before, Last
<1>b. /\ op' \in Operation /\ op'.sent = 0 /\ op'.refusals = 0
      /\ op'.at \in {"type", "challenge", "rest"}
  <2>1. CASE Goes("type")
    BY <2>1, <1>a, GoesKeeps DEF IInv, Keeps, Places
  <2>2. ASSUME NEW result \in {"unreadable", "error"}, Retry([op EXCEPT !.result = result])
        PROVE  /\ op' \in Operation /\ op'.sent = 0 /\ op'.refusals = 0
               /\ op'.at \in {"type", "challenge", "rest"}
    <3> DEFINE o == [op EXCEPT !.result = result]
    <3>1. o \in Operation /\ o.sent = 0 /\ o.refusals = 0
      BY <1>a DEF IInv, TypeOK, Operation, Results
    <3> QED
      BY <2>2, <3>1, RetryKeeps DEF Keeps
  <2> QED
    BY <2>1, <2>2 DEF Solve
<1>1. TypeOK'
  BY <1>a, <1>b DEF Solve, IInv, TypeOK, Keeps, settings, browser, session
<1>2. Attached'
  BY <1>a, <1>b DEF Solve, IInv, Attached, Signing, TypeOK, Keeps, settings,
       browser, session
<1>3. Submissions'
  BY <1>a, <1>b DEF Solve, IInv, Submissions, Before, Last, TypeOK, Attached,
       Keeps, settings, browser, session
<1>4. Reads'
  BY <1>a, <1>b DEF Solve, IInv, Reads, TypeOK, Keeps, settings, browser,
       session
<1> QED
  BY <1>1, <1>2, <1>3, <1>4 DEF IInv

(* The listeners are attached, then the handler, and nothing is sent yet.  *)
LEMMA TypeIInv == IInv /\ (Observe \/ Type \/ Token) => IInv'
<1> SUFFICES ASSUME IInv, Observe \/ Type \/ Token PROVE IInv'
  OBVIOUS
<1>a. /\ op.at \in {"observe", "type", "token"} /\ op.sent = 0 /\ op.refusals = 0
      /\ http => op.at # "token"
  BY DEF Observe, Type, Token, IInv, Submissions, Attached, Before, Last
<1>b. \/ Keeps(op, op', "type", op.result) /\ UNCHANGED route
      \/ Keeps(op, op', "rest", op.result) /\ UNCHANGED <<watch, route>> /\ op.at = "observe"
      \/ /\ Keeps(op, op', IF handshake THEN "token" ELSE "submit", op.result) /\ UNCHANGED watch
         /\ ~(handshake /\ http) /\ route' = IF http THEN "waiting" ELSE "off"
      \/ Keeps(op, op', "finish", "error") /\ UNCHANGED <<watch, route>>
      \/ Keeps(op, op', "submit", op.result) /\ UNCHANGED <<watch, route>> /\ op.at = "token"
  <2>1. CASE Observe
    BY <2>1, GoesKeeps, OverKeeps DEF Observe, IInv, Places
  <2>2. CASE Type
    <3>1. (IF handshake THEN "token" ELSE "submit") \in Places
      BY DEF Places
    <3> QED
      BY <2>2, <3>1, GoesKeeps, ResultKeeps DEF Type, IInv, Results
  <2>3. CASE Token
    BY <2>3, GoesKeeps, ResultKeeps DEF Token, IInv, Places, Results
  <2> QED
    BY <2>1, <2>2, <2>3
<1>c. UNCHANGED <<settings, browser, session>>
  BY DEF Observe, Type, Token
<1>1. TypeOK'
  BY <1>a, <1>b DEF Observe, Type, Token, IInv, TypeOK, Keeps, settings,
       browser, session
<1>2. Attached'
  BY <1>a, <1>b, <1>c DEF IInv, Attached, Signing, Keeps, settings
<1>3. Submissions'
  BY <1>a, <1>b DEF Observe, Type, Token, IInv, Submissions, Before, Last,
       TypeOK, Attached, Keeps, settings, browser, session
<1>4. Reads'
  BY <1>a, <1>b DEF Observe, Type, Token, IInv, Reads, TypeOK, Keeps,
       settings, browser, session
<1> QED
  BY <1>1, <1>2, <1>3, <1>4 DEF IInv

(* One post at most passes the handler.                                    *)
LEMMA PostIInv == IInv /\ Post => IInv'
<1> SUFFICES ASSUME IInv, Post PROVE IInv'
  OBVIOUS
<1>a. \/ op' \in Operation /\ Passes /\ op'.at = op.at /\ op'.sent = op.sent + 1 /\ op'.refusals = op.refusals /\ op'.result = op.result
      \/ Keeps(op, op', op.at, op.result) /\ ~Passes
  <2>1. CASE Passes
    BY <2>1 DEF Post, IInv, TypeOK, Operation
  <2>2. CASE ~Passes
    BY <2>2 DEF Post, IInv, TypeOK, Keeps, Operation
  <2> QED
    BY <2>1, <2>2
<1>1. TypeOK'
  BY <1>a DEF Post, Passes, IInv, TypeOK, Keeps, settings, browser, session
<1>2. Attached'
  BY <1>a DEF Post, Passes, IInv, Attached, Signing, TypeOK, Keeps, settings,
       browser, session
<1>3. Submissions'
  BY <1>a DEF Post, Passes, IInv, Submissions, Before, Last, TypeOK, Attached,
       Keeps, settings, browser, session
<1>4. Reads'
  BY <1>a DEF Post, Passes, IInv, Reads, TypeOK, Keeps, settings, browser,
       session
<1> QED
  BY <1>1, <1>2, <1>3, <1>4 DEF IInv

(* The answer is handed on, and the handler lets nothing more by.          *)
LEMMA ForwardIInv == IInv /\ Forward => IInv'
<1> SUFFICES ASSUME IInv, Forward PROVE IInv'
  OBVIOUS
<1>a. Keeps(op, op', op.at, op.result)
  BY DEF Forward, IInv, TypeOK, Keeps, Operation
<1>1. TypeOK'
  BY <1>a DEF Forward, IInv, TypeOK, Keeps, settings, browser, session
<1>2. Attached'
  BY <1>a DEF Forward, IInv, Attached, Signing, TypeOK, Keeps, settings,
       browser, session
<1>3. Submissions'
  BY <1>a DEF Forward, IInv, Submissions, Before, Last, TypeOK, Attached,
       Keeps, settings, browser, session
<1>4. Reads'
  BY <1>a DEF Forward, IInv, Reads, TypeOK, Keeps, settings, browser, session
<1> QED
  BY <1>1, <1>2, <1>3, <1>4 DEF IInv

(* The handler is gone when submit has settled.                            *)
LEMMA SubmittedIInv == IInv /\ Submitted => IInv'
<1> SUFFICES ASSUME IInv, Submitted PROVE IInv'
  OBVIOUS
<1>a. Keeps(op, op', "landed", op.result) \/ Keeps(op, op', "finish", "error")
  BY GoesKeeps, ResultKeeps DEF Submitted, IInv, Places, Results
<1>1. TypeOK'
  BY <1>a DEF Submitted, Unroute, IInv, TypeOK, Keeps, settings, browser,
       session
<1>2. Attached'
  BY <1>a DEF Submitted, Unroute, IInv, Attached, Signing, TypeOK, Keeps,
       settings, browser, session
<1>3. Submissions'
  BY <1>a DEF Submitted, Unroute, IInv, Submissions, Before, Last, TypeOK,
       Attached, Keeps, settings, browser, session
<1>4. Reads'
  BY <1>a DEF Submitted, Unroute, IInv, Reads, TypeOK, Keeps, settings,
       browser, session
<1> QED
  BY <1>1, <1>2, <1>3, <1>4 DEF IInv

(* What the reading of an answer does to the operation.                    *)
SentOrRefused ==
  /\ op' \in Operation /\ op'.sent = op.sent /\ op'.at \in {"verify", "finish"}
  /\ op'.refusals # 0 => op'.refusals = 1 /\ op'.result = "refused" /\ op'.at = "finish"

(* A refusal ends the attempt.                                             *)
LEMMA LandedIInv == IInv /\ (Landed \/ Verify) => IInv'
<1> SUFFICES ASSUME IInv, Landed \/ Verify PROVE IInv'
  OBVIOUS
<1>a. op.at \in {"landed", "verify"} /\ op.refusals = 0
  BY DEF Landed, Verify, IInv, TypeOK, Submissions, Last
<1>b. SentOrRefused
  <2>1. ASSUME NEW result \in Results, Result(result) PROVE SentOrRefused
    BY <2>1, <1>a, ResultKeeps DEF IInv, Keeps, SentOrRefused
  <2>2. ASSUME NEW class \in Classes,
               op' = [op EXCEPT !.at = IF class = "unknown" THEN "verify" ELSE "finish", !.result = class,
                                !.refusals = IF class = "refused" THEN @ + 1 ELSE @]
        PROVE  SentOrRefused
    <3> DEFINE at == IF class = "unknown" THEN "verify" ELSE "finish"
               refusals == IF class = "refused" THEN op.refusals + 1 ELSE op.refusals
    <3>1. op' = [op EXCEPT !.at = at, !.result = class, !.refusals = refusals]
      BY <2>2
    <3>2. at \in Places /\ class \in Results /\ refusals \in Nat
      BY <1>a DEF Places, Results
    <3>3. /\ op' \in Operation /\ op'.at = at /\ op'.result = class
          /\ op'.sent = op.sent /\ op'.refusals = refusals
      <4> HIDE DEF at, refusals
      <4>1. op \in Operation
        BY DEF IInv, TypeOK
      <4> QED
        BY <3>1, <3>2, <4>1 DEF Operation
    <3> QED
      BY <3>3, <1>a DEF SentOrRefused
  <2> QED
    BY <2>1, <2>2 DEF Landed, Verify, SignedIn, Results, Classes
<1>1. TypeOK'
  BY <1>a, <1>b DEF Landed, Verify, SignedIn, IInv, TypeOK, SentOrRefused, settings,
       browser, session
<1>2. Attached'
  BY <1>a, <1>b DEF Landed, Verify, SignedIn, IInv, Attached, Signing, TypeOK,
       SentOrRefused, settings, browser, session
<1>3. Submissions'
  <2>1. UNCHANGED <<http, route>>
    BY DEF Landed, Verify, settings
  <2> QED
    BY <1>a, <1>b, <2>1 DEF IInv, TypeOK, Operation, Submissions, Before, Last, Attached, SentOrRefused
<1>4. Reads'
  BY <1>a, <1>b DEF Landed, Verify, SignedIn, IInv, Reads, TypeOK, SentOrRefused,
       settings, browser, session
<1> QED
  BY <1>1, <1>2, <1>3, <1>4 DEF IInv

(* The listeners go; only a wrong code lets the sign-in go on.             *)
LEMMA FinishIInv == IInv /\ (Observed \/ Finish) => IInv'
<1> SUFFICES ASSUME IInv, Observed \/ Finish PROVE IInv'
  OBVIOUS
<1>a. op.at = "finish" \/ op.at = "report"
  BY DEF Observed, Finish
<1>b. \/ op.at = "finish" /\ Keeps(op, op', "report", op.result)
      \/ op.at = "report" /\ Keeps(op, op', "rest", op.result)
      \/ /\ op.at = "report" /\ op' \in Operation /\ op'.at = "challenge" /\ op'.sent = 0
         /\ op'.refusals = op.refusals /\ op'.result = op.result /\ op.result # "refused"
  BY GoesKeeps, OverKeeps, RetryKeeps DEF Observed, Finish, IInv, TypeOK, Places
<1>1. TypeOK'
  BY <1>a, <1>b DEF Observed, Finish, Detach, IInv, TypeOK, Keeps, settings,
       browser, session
<1>2. Attached'
  BY <1>a, <1>b DEF Observed, Finish, Detach, IInv, Attached, Signing, TypeOK,
       Keeps, settings, browser, session
<1>3. Submissions'
  BY <1>a, <1>b DEF Observed, Finish, Detach, IInv, Submissions, Before, Last,
       TypeOK, Attached, Keeps, settings, browser, session
<1>4. Reads'
  BY <1>a, <1>b DEF Observed, Finish, Detach, IInv, Reads, TypeOK, Keeps,
       settings, browser, session
<1> QED
  BY <1>1, <1>2, <1>3, <1>4 DEF IInv

(* A session that expires takes its reports with it.                       *)
LEMMA ReportsIInv == IInv /\ (Shell \/ Fetch \/ Fetched) => IInv'
<1> SUFFICES ASSUME IInv, Shell \/ Fetch \/ Fetched PROVE IInv'
  OBVIOUS
<1>a. op.at \in {"shell", "fetch"}
  BY DEF Shell, Fetch, Fetched
<1>b. Keeps(op, op', "rest", op.result) \/ Keeps(op, op', "fetch", op.result)
  <2>1. CASE Shell \/ Fetched
    BY <2>1, GoesKeeps, OverKeeps DEF Shell, Fetched, Expired, IInv, Places
  <2>2. CASE Fetch
    <3>1. ASSUME NEW ok \in BOOLEAN, op' = [op EXCEPT !.fetched = @ + 1, !.whole = @ /\ ok]
          PROVE  Keeps(op, op', "fetch", op.result)
      <4>1. op.fetched + 1 \in 0 .. MaxReports
        <5>1. op.fetched \in 0 .. MaxReports /\ op.fetched < MaxReports
          BY <2>2 DEF Fetch, IInv, TypeOK, Operation
        <5> QED
          BY <5>1, ReportsAssumption
      <4>2. (op.whole /\ ok) \in BOOLEAN
        OBVIOUS
      <4>3. op' = [op EXCEPT !.fetched = op.fetched + 1, !.whole = op.whole /\ ok]
        BY <3>1
      <4> QED
        BY <2>2, <4>1, <4>2, <4>3, FetchKeeps DEF Fetch, IInv, TypeOK
    <3> QED
      BY <2>2, <3>1, OverKeeps DEF Fetch, Expired, IInv
  <2> QED
    BY <2>1, <2>2
<1>c. /\ UNCHANGED <<settings, browser, watch, route>>
      /\ UNCHANGED authenticated \/ (cache' = "none" /\ op'.at = "rest")
  BY OverKeeps DEF Shell, Fetch, Fetched, Expired, IInv, Keeps, session
<1>1. TypeOK'
  BY <1>a, <1>b DEF Shell, Fetch, Fetched, Expired, IInv, TypeOK, Keeps, settings, browser, session
<1>2. Attached'
  BY <1>a, <1>b, <1>c DEF IInv, Attached, Signing, Keeps, settings
<1>3. Submissions'
  BY <1>a, <1>b, <1>c DEF IInv, Submissions, Before, Last, Keeps, settings
<1>4. Reads'
  BY <1>a, <1>b, <1>c DEF IInv, Reads, Keeps, browser
<1> QED
  BY <1>1, <1>2, <1>3, <1>4 DEF IInv

(* A close or a crash leaves the operation where it is.                    *)
LEMMA CloseIInv == IInv /\ (CacheAges \/ Close \/ CloseDone \/ BrowserDies) => IInv'
<1> SUFFICES ASSUME IInv, CacheAges \/ Close \/ CloseDone \/ BrowserDies PROVE IInv'
  OBVIOUS
<1>1. TypeOK'
  BY DEF CacheAges, Close, CloseDone, BrowserDies, IInv, TypeOK, settings,
       browser, session
<1>2. Attached'
  BY DEF CacheAges, Close, CloseDone, BrowserDies, IInv, Attached, Signing,
       TypeOK, settings, browser, session
<1>3. Submissions'
  BY DEF CacheAges, Close, CloseDone, BrowserDies, IInv, Submissions, Before,
       Last, TypeOK, Attached, settings, browser, session
<1>4. Reads'
  BY DEF CacheAges, Close, CloseDone, BrowserDies, IInv, Reads, TypeOK,
       settings, browser, session
<1> QED
  BY <1>1, <1>2, <1>3, <1>4 DEF IInv

(* The invariant is inductive.                                             *)
THEOREM Invariant == Spec => []IInv
<1>1. IInv /\ [Next]_vars => IInv'
  <2> SUFFICES ASSUME IInv, [Next]_vars PROVE IInv'
    OBVIOUS
  <2>1. CASE Start
    BY <2>1, StartIInv
  <2>2. CASE Steps
    BY <2>2, OpenIInv, SolveIInv, TypeIInv, ForwardIInv, SubmittedIInv, LandedIInv, FinishIInv,
       ReportsIInv DEF Steps
  <2>3. CASE Post
    BY <2>3, PostIInv
  <2>4. CASE CacheAges \/ Close \/ CloseDone \/ BrowserDies
    BY <2>4, CloseIInv
  <2>5. CASE UNCHANGED vars
    BY <2>5 DEF vars, IInv, TypeOK, Attached, Submissions, Reads, Before, Signing, Last, Classes
  <2> QED
    BY <2>1, <2>2, <2>3, <2>4, <2>5 DEF Next
<1> QED
  BY <1>1, InitIInv, PTL DEF Spec

(* Every variable keeps its type, however operations and closes overlap.   *)
THEOREM TypeCorrect == Spec => []TypeOK
<1>1. IInv => TypeOK
  BY DEF IInv
<1> QED
  BY <1>1, Invariant, PTL

(* With the handler one form at most reaches the portal in a sign-in, and  *)
(* a refused password is not sent again.                                   *)
THEOREM PasswordsAreSentOnce == Spec => []SubmitsOnce
<1>1. IInv => SubmitsOnce
  BY DEF IInv, TypeOK, Submissions, SubmitsOnce
<1> QED
  BY <1>1, Invariant, PTL

(* Reports are kept only while the session that read them is signed in.    *)
THEOREM ReportsGoWithTheSession == Spec => []CacheOfSession
<1>1. IInv => CacheOfSession
  BY DEF IInv, Reads, CacheOfSession
<1> QED
  BY <1>1, Invariant, PTL

(* Between operations nothing is attached to the page.                     *)
THEOREM NothingStaysAttached == Spec => []Detached
<1>1. IInv => Detached
  BY DEF IInv, Attached, Signing, Detached
<1> QED
  BY <1>1, Invariant, PTL
=============================================================================
