------------------------------ MODULE ApiProofs ------------------------------
(***************************************************************************)
(* Proofs about the API for any number of requests and any forms: that the *)
(* tables change by whole statements only, so that what StoreProofs proves *)
(* holds under it, and what its answers can be relied on for.              *)
(***************************************************************************)
EXTENDS Api, StoreProofs

(* What FormAssumption says of one form. *)
LEMMA FormFacts ==
  ASSUME NEW f \in Forms
  PROVE  /\ f.op \in Op /\ f.name \in Text
         /\ f.values \in Lists /\ Len(f.values) \in Nat
         /\ \A i \in 1 .. Len(f.values) : f.values[i] \in Text
         /\ Count(f) \in Nat
         /\ f.op = "word" => Len(f.values) = 1
         /\ f.op # "file" => Count(f) = 1
<1>1. f.op \in Op /\ f.name \in Text /\ f.values \in Lists
  BY FormAssumption
<1>2. f.values \in Seq(Text)
  BY <1>1, StoreAssumption
<1>3. Len(f.values) \in Nat /\ \A i \in 1 .. Len(f.values) : f.values[i] \in Text
  BY <1>2
<1>4. f.op = "word" => Len(f.values) = 1
  BY FormAssumption DEF Possible
<1> QED
  BY <1>1, <1>3, <1>4 DEF Count

(* What a request carries is one of the forms. *)
LEMMA FormOfRequest ==
  ASSUME NEW r \in Request, NEW f \in Form[r] PROVE f \in Forms
BY DEF Forms

(* Every step of the API keeps its types. *)
LEMMA TypeStep == TypeOK /\ [Next]_vars => TypeOK'
<1> SUFFICES ASSUME TypeOK, [Next]_vars PROVE TypeOK'
  OBVIOUS
<1> USE DEF TypeOK, PC, Status, InFront, handler, wire, link
<1>1. ASSUME NEW r \in Request, NEW f \in Form[r], Arrive(r, f) PROVE TypeOK'
  <2>1. Written(f) \in {0, 400, 500} /\ f \in Forms
    BY FormOfRequest DEF Written
  <2>2. form' \in [Request -> Forms \cup {NoForm}]
    BY <1>1, <2>1 DEF Arrive
  <2>3. pc' \in [Request -> PC] /\ status' \in [Request -> {0, 200, 400, 500}]
    BY <1>1, <2>1 DEF Arrive
  <2>4. \A q \in Request : pc'[q] = "new" \/ form'[q] \in Forms
    BY <1>1, <2>1 DEF Arrive
  <2> QED
    BY <1>1, <2>2, <2>3, <2>4 DEF Arrive
<1>2. ASSUME NEW r \in Request, NEW f \in Form[r], Crash(r, f) PROVE TypeOK'
  <2>1. form' \in [Request -> Forms \cup {NoForm}]
    BY <1>2, FormOfRequest DEF Crash
  <2>2. pc' \in [Request -> PC]
    BY <1>2 DEF Crash
  <2>3. \A q \in Request : pc'[q] = "new" \/ form'[q] \in Forms
    BY <1>2, FormOfRequest DEF Crash
  <2>4. up' \in BOOLEAN /\ conn' \in Status
    BY <1>2 DEF Crash
  <2> QED
    BY <1>2, <2>1, <2>2, <2>3, <2>4 DEF Crash
<1>3. ASSUME NEW r \in Request, Finish(r) PROVE TypeOK'
  BY <1>3 DEF Finish
<1>4. ASSUME NEW r \in Request, FailAtOnce(r) PROVE TypeOK'
  BY <1>4 DEF FailAtOnce, Calls, Fail
<1>5. ASSUME NEW r \in Request, Enter(r) PROVE TypeOK'
  BY <1>5 DEF Enter, Calls
<1>6. ASSUME NEW r \in Request, Clash(r) PROVE TypeOK'
  BY <1>6 DEF Clash, Calls
<1>7. ASSUME NEW r \in Request, Refuse(r) PROVE TypeOK'
  BY <1>7 DEF Refuse
<1>8. ASSUME NEW r \in Request, ReadRefused(r) PROVE TypeOK'
  BY <1>8 DEF ReadRefused, Fail
<1>9. ASSUME NEW r \in Request, Lock(r) PROVE TypeOK'
  BY <1>9 DEF Lock
<1>10. ASSUME NEW r \in Request, LockInVain(r) PROVE TypeOK'
  BY <1>10 DEF LockInVain, NoRows, Fail, Proceed
<1>11. ASSUME NEW r \in Request, Send(r) PROVE TypeOK'
  BY <1>11 DEF Send
<1>12. ASSUME NEW r \in Request, Read(r) PROVE TypeOK'
  BY <1>12 DEF Read, Waits, Fail, Proceed
<1>13. ASSUME NEW r \in Request, ReadPast(r) PROVE TypeOK'
  BY <1>13 DEF ReadPast, Waits
<1>14. ASSUME NEW r \in Request, ReadUsed(r) PROVE TypeOK'
  BY <1>14 DEF ReadUsed, Waits, NoRows, Fail, Proceed
<1>15. ASSUME NEW r \in Request, ReadBusy(r) PROVE TypeOK'
  BY <1>15 DEF ReadBusy, Waits, Fail
<1>16. ASSUME NEW r \in Request, CancelCall(r) PROVE TypeOK'
  BY <1>16 DEF CancelCall, Fail
<1>17. ASSUME NEW r \in Request, ReadClosed(r) PROVE TypeOK'
  BY <1>17 DEF ReadClosed, Fail
<1>18. ASSUME NEW r \in Request, Muddle(r) PROVE TypeOK'
  BY <1>18 DEF Muddle, Fail, Proceed
<1>19. ASSUME NEW r \in Request, Execute(r) PROVE TypeOK'
  BY <1>19 DEF Execute
<1>20. ASSUME NEW r \in Request, ExecuteTorn(r) PROVE TypeOK'
  BY <1>20 DEF ExecuteTorn
<1>21. ASSUME NEW r \in Request, Disconnect(r) PROVE TypeOK'
  BY <1>21 DEF Disconnect
<1>22. CASE Drop
  BY <1>22 DEF Drop
<1>23. CASE UNCHANGED vars
  BY <1>23 DEF vars
<1> QED
  BY <1>1, <1>2, <1>3, <1>4, <1>5, <1>6, <1>7, <1>8, <1>9, <1>10, <1>11,
     <1>12, <1>13, <1>14, <1>15, <1>16, <1>17, <1>18, <1>19, <1>20, <1>21,
     <1>22, <1>23 DEF Next, Handler

(* Where a handler is and how many of its statements have gone out. *)
LEMMA ProgressStep ==
  TypeOK /\ (\A q \in Request : Progress(q)) /\ [Next]_vars
    => \A q \in Request : Progress(q)'
<1> SUFFICES ASSUME TypeOK, \A q \in Request : Progress(q), [Next]_vars
             PROVE  \A q \in Request : Progress(q)'
  OBVIOUS
<1>a. \A f \in Forms : Count(f) \in Nat
  BY FormFacts
<1> USE DEF TypeOK, PC, InFront, handler, wire, link, Progress
<1>1. ASSUME NEW r \in Request, NEW f \in Form[r], Arrive(r, f) PROVE \A q \in Request : Progress(q)'
  BY <1>1, <1>a, FormOfRequest DEF Arrive
<1>2. ASSUME NEW r \in Request, NEW f \in Form[r], Crash(r, f) PROVE \A q \in Request : Progress(q)'
  BY <1>2, <1>a, FormOfRequest DEF Crash
<1>3. ASSUME NEW r \in Request, Finish(r) PROVE \A q \in Request : Progress(q)'
  BY <1>3, <1>a DEF Finish
<1>4. ASSUME NEW r \in Request, FailAtOnce(r) PROVE \A q \in Request : Progress(q)'
  BY <1>4, <1>a DEF FailAtOnce, Calls, Fail
<1>5. ASSUME NEW r \in Request, Enter(r) PROVE \A q \in Request : Progress(q)'
  BY <1>5, <1>a DEF Enter, Calls
<1>6. ASSUME NEW r \in Request, Clash(r) PROVE \A q \in Request : Progress(q)'
  BY <1>6, <1>a DEF Clash, Calls
<1>7. ASSUME NEW r \in Request, Refuse(r) PROVE \A q \in Request : Progress(q)'
  BY <1>7, <1>a DEF Refuse
<1>8. ASSUME NEW r \in Request, ReadRefused(r) PROVE \A q \in Request : Progress(q)'
  BY <1>8, <1>a DEF ReadRefused, Fail
<1>9. ASSUME NEW r \in Request, Lock(r) PROVE \A q \in Request : Progress(q)'
  BY <1>9, <1>a DEF Lock
<1>10. ASSUME NEW r \in Request, LockInVain(r) PROVE \A q \in Request : Progress(q)'
  BY <1>10, <1>a DEF LockInVain, NoRows, Fail, Proceed
<1>11. ASSUME NEW r \in Request, Send(r) PROVE \A q \in Request : Progress(q)'
  BY <1>11, <1>a DEF Send
<1>12. ASSUME NEW r \in Request, Read(r) PROVE \A q \in Request : Progress(q)'
  BY <1>12, <1>a DEF Read, Waits, Fail, Proceed
<1>13. ASSUME NEW r \in Request, ReadPast(r) PROVE \A q \in Request : Progress(q)'
  BY <1>13, <1>a DEF ReadPast, Waits
<1>14. ASSUME NEW r \in Request, ReadUsed(r) PROVE \A q \in Request : Progress(q)'
  BY <1>14, <1>a DEF ReadUsed, Waits, NoRows, Fail, Proceed
<1>15. ASSUME NEW r \in Request, ReadBusy(r) PROVE \A q \in Request : Progress(q)'
  BY <1>15, <1>a DEF ReadBusy, Waits, Fail
<1>16. ASSUME NEW r \in Request, CancelCall(r) PROVE \A q \in Request : Progress(q)'
  BY <1>16, <1>a DEF CancelCall, Fail
<1>17. ASSUME NEW r \in Request, ReadClosed(r) PROVE \A q \in Request : Progress(q)'
  BY <1>17, <1>a DEF ReadClosed, Fail
<1>18. ASSUME NEW r \in Request, Muddle(r) PROVE \A q \in Request : Progress(q)'
  BY <1>18, <1>a DEF Muddle, Fail, Proceed
<1>19. ASSUME NEW r \in Request, Execute(r) PROVE \A q \in Request : Progress(q)'
  BY <1>19, <1>a DEF Execute
<1>20. ASSUME NEW r \in Request, ExecuteTorn(r) PROVE \A q \in Request : Progress(q)'
  BY <1>20, <1>a DEF ExecuteTorn
<1>21. ASSUME NEW r \in Request, Disconnect(r) PROVE \A q \in Request : Progress(q)'
  BY <1>21, <1>a DEF Disconnect
<1>22. CASE Drop
  BY <1>22, <1>a DEF Drop
<1>23. CASE UNCHANGED vars
  BY <1>23, <1>a DEF vars
<1> QED
  BY <1>1, <1>2, <1>3, <1>4, <1>5, <1>6, <1>7, <1>8, <1>9, <1>10, <1>11,
     <1>12, <1>13, <1>14, <1>15, <1>16, <1>17, <1>18, <1>19, <1>20, <1>21,
     <1>22, <1>23 DEF Next, Handler

(* The status of an untorn connection is never that of a torn one. *)
LEMMA StatusStep ==
  (conn = "torn" => torn) /\ [Next]_vars => (conn' = "torn" => torn')
<1> SUFFICES ASSUME conn = "torn" => torn, [Next]_vars PROVE conn' = "torn" => torn'
  OBVIOUS
<1> USE DEF handler, wire, link
<1>1. ASSUME NEW r \in Request, NEW f \in Form[r], Arrive(r, f) PROVE conn' = "torn" => torn'
  BY <1>1 DEF Arrive
<1>2. ASSUME NEW r \in Request, NEW f \in Form[r], Crash(r, f) PROVE conn' = "torn" => torn'
  BY <1>2 DEF Crash
<1>3. ASSUME NEW r \in Request, Finish(r) PROVE conn' = "torn" => torn'
  BY <1>3 DEF Finish
<1>4. ASSUME NEW r \in Request, FailAtOnce(r) PROVE conn' = "torn" => torn'
  BY <1>4 DEF FailAtOnce, Calls, Fail
<1>5. ASSUME NEW r \in Request, Enter(r) PROVE conn' = "torn" => torn'
  BY <1>5 DEF Enter, Calls
<1>6. ASSUME NEW r \in Request, Clash(r) PROVE conn' = "torn" => torn'
  BY <1>6 DEF Clash, Calls
<1>7. ASSUME NEW r \in Request, Refuse(r) PROVE conn' = "torn" => torn'
  BY <1>7 DEF Refuse
<1>8. ASSUME NEW r \in Request, ReadRefused(r) PROVE conn' = "torn" => torn'
  BY <1>8 DEF ReadRefused, Fail
<1>9. ASSUME NEW r \in Request, Lock(r) PROVE conn' = "torn" => torn'
  BY <1>9 DEF Lock
<1>10. ASSUME NEW r \in Request, LockInVain(r) PROVE conn' = "torn" => torn'
  BY <1>10 DEF LockInVain, NoRows, Fail, Proceed
<1>11. ASSUME NEW r \in Request, Send(r) PROVE conn' = "torn" => torn'
  BY <1>11 DEF Send
<1>12. ASSUME NEW r \in Request, Read(r) PROVE conn' = "torn" => torn'
  BY <1>12 DEF Read, Waits, Fail, Proceed
<1>13. ASSUME NEW r \in Request, ReadPast(r) PROVE conn' = "torn" => torn'
  BY <1>13 DEF ReadPast, Waits
<1>14. ASSUME NEW r \in Request, ReadUsed(r) PROVE conn' = "torn" => torn'
  BY <1>14 DEF ReadUsed, Waits, NoRows, Fail, Proceed
<1>15. ASSUME NEW r \in Request, ReadBusy(r) PROVE conn' = "torn" => torn'
  BY <1>15 DEF ReadBusy, Waits, Fail
<1>16. ASSUME NEW r \in Request, CancelCall(r) PROVE conn' = "torn" => torn'
  BY <1>16 DEF CancelCall, Fail
<1>17. ASSUME NEW r \in Request, ReadClosed(r) PROVE conn' = "torn" => torn'
  BY <1>17 DEF ReadClosed, Fail
<1>18. ASSUME NEW r \in Request, Muddle(r) PROVE conn' = "torn" => torn'
  BY <1>18 DEF Muddle, Fail, Proceed
<1>19. ASSUME NEW r \in Request, Execute(r) PROVE conn' = "torn" => torn'
  BY <1>19 DEF Execute
<1>20. ASSUME NEW r \in Request, ExecuteTorn(r) PROVE conn' = "torn" => torn'
  BY <1>20 DEF ExecuteTorn
<1>21. ASSUME NEW r \in Request, Disconnect(r) PROVE conn' = "torn" => torn'
  BY <1>21 DEF Disconnect
<1>22. CASE Drop
  BY <1>22 DEF Drop
<1>23. CASE UNCHANGED vars
  BY <1>23 DEF vars
<1> QED
  BY <1>1, <1>2, <1>3, <1>4, <1>5, <1>6, <1>7, <1>8, <1>9, <1>10, <1>11,
     <1>12, <1>13, <1>14, <1>15, <1>16, <1>17, <1>18, <1>19, <1>20, <1>21,
     <1>22, <1>23 DEF Next, Handler

(* The calls exclude each other until the connection is torn. *)
LEMMA OneCallStep == IInv /\ [Next]_vars => OneCallAtATime'
<1> SUFFICES ASSUME TypeOK, conn = "torn" => torn, OneCallAtATime, [Next]_vars
             PROVE  OneCallAtATime'
  BY DEF IInv
<1> USE DEF TypeOK, PC, Status, InFront, Holds, handler, wire, link, OneCallAtATime
<1>1. ASSUME NEW r \in Request, NEW f \in Form[r], Arrive(r, f) PROVE OneCallAtATime'
  BY <1>1 DEF Arrive
<1>2. ASSUME NEW r \in Request, NEW f \in Form[r], Crash(r, f) PROVE OneCallAtATime'
  BY <1>2 DEF Crash
<1>3. ASSUME NEW r \in Request, Finish(r) PROVE OneCallAtATime'
  BY <1>3 DEF Finish
<1>4. ASSUME NEW r \in Request, FailAtOnce(r) PROVE OneCallAtATime'
  BY <1>4 DEF FailAtOnce, Calls, Fail
<1>5. ASSUME NEW r \in Request, Enter(r) PROVE OneCallAtATime'
  BY <1>5 DEF Enter, Calls, Alone
<1>6. ASSUME NEW r \in Request, Clash(r) PROVE OneCallAtATime'
  BY <1>6 DEF Clash, Calls
<1>7. ASSUME NEW r \in Request, Refuse(r) PROVE OneCallAtATime'
  BY <1>7 DEF Refuse
<1>8. ASSUME NEW r \in Request, ReadRefused(r) PROVE OneCallAtATime'
  BY <1>8 DEF ReadRefused, Fail
<1>9. ASSUME NEW r \in Request, Lock(r) PROVE OneCallAtATime'
  BY <1>9 DEF Lock
<1>10. ASSUME NEW r \in Request, LockInVain(r) PROVE OneCallAtATime'
  BY <1>10 DEF LockInVain, NoRows, Fail, Proceed
<1>11. ASSUME NEW r \in Request, Send(r) PROVE OneCallAtATime'
  BY <1>11 DEF Send
<1>12. ASSUME NEW r \in Request, Read(r) PROVE OneCallAtATime'
  BY <1>12 DEF Read, Waits, Fail, Proceed
<1>13. ASSUME NEW r \in Request, ReadPast(r) PROVE OneCallAtATime'
  BY <1>13 DEF ReadPast, Waits
<1>14. ASSUME NEW r \in Request, ReadUsed(r) PROVE OneCallAtATime'
  BY <1>14 DEF ReadUsed, Waits, NoRows, Fail, Proceed
<1>15. ASSUME NEW r \in Request, ReadBusy(r) PROVE OneCallAtATime'
  BY <1>15 DEF ReadBusy, Waits, Fail
<1>16. ASSUME NEW r \in Request, CancelCall(r) PROVE OneCallAtATime'
  BY <1>16 DEF CancelCall, Fail
<1>17. ASSUME NEW r \in Request, ReadClosed(r) PROVE OneCallAtATime'
  BY <1>17 DEF ReadClosed, Fail
<1>18. ASSUME NEW r \in Request, Muddle(r) PROVE OneCallAtATime'
  BY <1>18 DEF Muddle, Fail, Proceed
<1>19. ASSUME NEW r \in Request, Execute(r) PROVE OneCallAtATime'
  BY <1>19 DEF Execute
<1>20. ASSUME NEW r \in Request, ExecuteTorn(r) PROVE OneCallAtATime'
  BY <1>20 DEF ExecuteTorn
<1>21. ASSUME NEW r \in Request, Disconnect(r) PROVE OneCallAtATime'
  BY <1>21 DEF Disconnect
<1>22. CASE Drop
  BY <1>22 DEF Drop
<1>23. CASE UNCHANGED vars
  BY <1>23 DEF vars
<1> QED
  BY <1>1, <1>2, <1>3, <1>4, <1>5, <1>6, <1>7, <1>8, <1>9, <1>10, <1>11,
     <1>12, <1>13, <1>14, <1>15, <1>16, <1>17, <1>18, <1>19, <1>20, <1>21,
     <1>22, <1>23 DEF Next, Handler

(* What is on the wire is a statement of a form, or has the parameters of  *)
(* one of the same kind: its values are texts, its list is a list.         *)
LEMMA StatementIsOfStore ==
  ASSUME NEW f \in Forms, NEW op \in Op,
         op = f.op \/ {f.op, op} \in {{"word", "file"}, {"image", "phrases"}},
         NEW k \in 1 .. Count(f), Statement([f EXCEPT !.op = op], k)
  PROVE  [StoreNext]_tables
<1> DEFINE g == [f EXCEPT !.op = op]
<1>0. g.op = op /\ g.name = f.name /\ g.values = f.values
  BY FormAssumption
<1>1. Statement(g, k)
  OBVIOUS
<1> HIDE DEF g
<1>2. CASE op \in {"word", "file"}
  <2>1. f.op \in {"word", "file"}
    BY <1>2
  <2>2. f.values[k] \in Text
    BY <2>1, FormFacts DEF Count
  <2> QED
    BY <1>0, <1>1, <1>2, <2>2 DEF Statement, StoreNext
<1>3. CASE op \notin {"word", "file"}
  BY <1>0, <1>1, <1>3, FormFacts DEF Statement, StoreNext
<1> QED
  BY <1>2, <1>3

(* Every step of the API is a step of the database or none. *)
LEMMA StepIsOfStore ==
  TypeOK /\ (\A q \in Request : Progress(q)) /\ [Next]_vars => [StoreNext]_tables
<1> SUFFICES ASSUME TypeOK, \A q \in Request : Progress(q), [Next]_vars
             PROVE  [StoreNext]_tables
  OBVIOUS
<1>1. ASSUME NEW r \in Request, NEW f \in Form[r], Arrive(r, f) PROVE [StoreNext]_tables
  BY <1>1 DEF Arrive
<1>2. ASSUME NEW r \in Request, NEW f \in Form[r], Crash(r, f) PROVE [StoreNext]_tables
  BY <1>2 DEF Crash
<1>3. ASSUME NEW r \in Request, Finish(r) PROVE [StoreNext]_tables
  BY <1>3 DEF Finish
<1>4. ASSUME NEW r \in Request, FailAtOnce(r) PROVE [StoreNext]_tables
  BY <1>4 DEF FailAtOnce, Calls, Fail
<1>5. ASSUME NEW r \in Request, Enter(r) PROVE [StoreNext]_tables
  BY <1>5 DEF Enter, Calls
<1>6. ASSUME NEW r \in Request, Clash(r) PROVE [StoreNext]_tables
  BY <1>6 DEF Clash, Calls
<1>7. ASSUME NEW r \in Request, Refuse(r) PROVE [StoreNext]_tables
  BY <1>7 DEF Refuse
<1>8. ASSUME NEW r \in Request, ReadRefused(r) PROVE [StoreNext]_tables
  BY <1>8 DEF ReadRefused, Fail
<1>9. ASSUME NEW r \in Request, Lock(r) PROVE [StoreNext]_tables
  BY <1>9 DEF Lock
<1>10. ASSUME NEW r \in Request, LockInVain(r) PROVE [StoreNext]_tables
  BY <1>10 DEF LockInVain, NoRows, Fail, Proceed
<1>11. ASSUME NEW r \in Request, Send(r) PROVE [StoreNext]_tables
  BY <1>11 DEF Send
<1>12. ASSUME NEW r \in Request, Read(r) PROVE [StoreNext]_tables
  BY <1>12 DEF Read, Waits, Fail, Proceed
<1>13. ASSUME NEW r \in Request, ReadPast(r) PROVE [StoreNext]_tables
  BY <1>13 DEF ReadPast, Waits
<1>14. ASSUME NEW r \in Request, ReadUsed(r) PROVE [StoreNext]_tables
  BY <1>14 DEF ReadUsed, Waits, NoRows, Fail, Proceed
<1>15. ASSUME NEW r \in Request, ReadBusy(r) PROVE [StoreNext]_tables
  BY <1>15 DEF ReadBusy, Waits, Fail
<1>16. ASSUME NEW r \in Request, CancelCall(r) PROVE [StoreNext]_tables
  BY <1>16 DEF CancelCall, Fail
<1>17. ASSUME NEW r \in Request, ReadClosed(r) PROVE [StoreNext]_tables
  BY <1>17 DEF ReadClosed, Fail
<1>18. ASSUME NEW r \in Request, Muddle(r) PROVE [StoreNext]_tables
  BY <1>18 DEF Muddle, Fail, Proceed
<1>19. ASSUME NEW r \in Request, Execute(r) PROVE [StoreNext]_tables
  <2>1. Statement(form[r], at[r]) /\ at[r] > 0
    BY <1>19 DEF Execute, Progress
  <2>2. form[r] \in Forms /\ at[r] \in Nat /\ at[r] <= Count(form[r])
    BY <2>1 DEF TypeOK, Progress
  <2>3. at[r] \in 1 .. Count(form[r]) /\ form[r].op \in Op
    BY <2>1, <2>2, FormFacts
  <2>4. form[r] = [form[r] EXCEPT !.op = form[r].op]
    BY <2>2, FormAssumption
  <2> QED
    BY <2>1, <2>2, <2>3, <2>4, StatementIsOfStore
<1>20. ASSUME NEW r \in Request, ExecuteTorn(r) PROVE [StoreNext]_tables
  <2> SUFFICES ASSUME NEW q \in Request, InHand(q) > 0, Fits(q, r),
                      Statement([form[q] EXCEPT !.op = form[r].op], InHand(q))
               PROVE  [StoreNext]_tables
    BY <1>20 DEF ExecuteTorn
  <2>1. at[r] > 0
    BY <1>20 DEF ExecuteTorn, Progress
  <2>2. form[r] \in Forms /\ form[r].op \in Op
    BY <2>1, FormFacts DEF TypeOK, Progress
  <2>3. form[q] \in Forms /\ Count(form[q]) \in Nat
    BY FormFacts DEF InHand, TypeOK, Progress, InFront
  <2>4. InHand(q) \in 1 .. Count(form[q])
    BY <2>3 DEF InHand, TypeOK, Progress, InFront
  <2>5. form[r].op = form[q].op \/ {form[q].op, form[r].op} \in {{"word", "file"}, {"image", "phrases"}}
    BY DEF Fits
  <2> QED
    BY <2>2, <2>3, <2>4, <2>5, StatementIsOfStore
<1>21. ASSUME NEW r \in Request, Disconnect(r) PROVE [StoreNext]_tables
  BY <1>21 DEF Disconnect
<1>22. CASE Drop
  BY <1>22 DEF Drop
<1>23. CASE UNCHANGED vars
  BY <1>23 DEF vars
<1> QED
  BY <1>1, <1>2, <1>3, <1>4, <1>5, <1>6, <1>7, <1>8, <1>9, <1>10, <1>11,
     <1>12, <1>13, <1>14, <1>15, <1>16, <1>17, <1>18, <1>19, <1>20, <1>21,
     <1>22, <1>23 DEF Next, Handler

(* Nothing mends a torn connection. *)
LEMMA TornStep == [Next]_vars /\ ~torn' => ~torn
<1> SUFFICES ASSUME [Next]_vars, ~torn' PROVE ~torn
  OBVIOUS
<1> USE DEF handler, wire, link
<1>1. ASSUME NEW r \in Request, NEW f \in Form[r], Arrive(r, f) PROVE ~torn
  BY <1>1 DEF Arrive
<1>2. ASSUME NEW r \in Request, NEW f \in Form[r], Crash(r, f) PROVE ~torn
  BY <1>2 DEF Crash
<1>3. ASSUME NEW r \in Request, Finish(r) PROVE ~torn
  BY <1>3 DEF Finish
<1>4. ASSUME NEW r \in Request, FailAtOnce(r) PROVE ~torn
  BY <1>4 DEF FailAtOnce, Calls, Fail
<1>5. ASSUME NEW r \in Request, Enter(r) PROVE ~torn
  BY <1>5 DEF Enter, Calls
<1>6. ASSUME NEW r \in Request, Clash(r) PROVE ~torn
  BY <1>6 DEF Clash, Calls
<1>7. ASSUME NEW r \in Request, Refuse(r) PROVE ~torn
  BY <1>7 DEF Refuse
<1>8. ASSUME NEW r \in Request, ReadRefused(r) PROVE ~torn
  BY <1>8 DEF ReadRefused, Fail
<1>9. ASSUME NEW r \in Request, Lock(r) PROVE ~torn
  BY <1>9 DEF Lock
<1>10. ASSUME NEW r \in Request, LockInVain(r) PROVE ~torn
  BY <1>10 DEF LockInVain, NoRows, Fail, Proceed
<1>11. ASSUME NEW r \in Request, Send(r) PROVE ~torn
  BY <1>11 DEF Send
<1>12. ASSUME NEW r \in Request, Read(r) PROVE ~torn
  BY <1>12 DEF Read, Waits, Fail, Proceed
<1>13. ASSUME NEW r \in Request, ReadPast(r) PROVE ~torn
  BY <1>13 DEF ReadPast, Waits
<1>14. ASSUME NEW r \in Request, ReadUsed(r) PROVE ~torn
  BY <1>14 DEF ReadUsed, Waits, NoRows, Fail, Proceed
<1>15. ASSUME NEW r \in Request, ReadBusy(r) PROVE ~torn
  BY <1>15 DEF ReadBusy, Waits, Fail
<1>16. ASSUME NEW r \in Request, CancelCall(r) PROVE ~torn
  BY <1>16 DEF CancelCall, Fail
<1>17. ASSUME NEW r \in Request, ReadClosed(r) PROVE ~torn
  BY <1>17 DEF ReadClosed, Fail
<1>18. ASSUME NEW r \in Request, Muddle(r) PROVE ~torn
  BY <1>18 DEF Muddle, Fail, Proceed
<1>19. ASSUME NEW r \in Request, Execute(r) PROVE ~torn
  BY <1>19 DEF Execute
<1>20. ASSUME NEW r \in Request, ExecuteTorn(r) PROVE ~torn
  BY <1>20 DEF ExecuteTorn
<1>21. ASSUME NEW r \in Request, Disconnect(r) PROVE ~torn
  BY <1>21 DEF Disconnect
<1>22. CASE Drop
  BY <1>22 DEF Drop
<1>23. CASE UNCHANGED vars
  BY <1>23 DEF vars
<1> QED
  BY <1>1, <1>2, <1>3, <1>4, <1>5, <1>6, <1>7, <1>8, <1>9, <1>10, <1>11,
     <1>12, <1>13, <1>14, <1>15, <1>16, <1>17, <1>18, <1>19, <1>20, <1>21,
     <1>22, <1>23 DEF Next, Handler

(* How many statements of a request have taken effect. *)
LEMMA LedgerStep ==
  IInv /\ [Next]_vars /\ ~torn' => \A q \in Request : Ledger(q)'
<1> SUFFICES ASSUME IInv, [Next]_vars, ~torn'
             PROVE  \A q \in Request : Ledger(q)'
  OBVIOUS
<1>a. \A f \in Forms : Count(f) \in Nat
  BY FormFacts
<1>b. ~torn /\ conn # "torn" /\ \A q \in Request : Ledger(q)
  BY TornStep DEF IInv
<1>c. \A q \in Request : Progress(q)
  BY DEF IInv
<1>d. TypeOK
  BY DEF IInv
<1>e. OneCallAtATime
  BY DEF IInv
<1> USE DEF TypeOK, PC, Status, Lost, InFront, handler, wire, link, Progress, Ledger
<1>1. ASSUME NEW r \in Request, NEW f \in Form[r], Arrive(r, f) PROVE \A q \in Request : Ledger(q)'
  <2> SUFFICES ASSUME NEW q \in Request PROVE Ledger(q)'
    OBVIOUS
  <2>1. step' = step /\ at' = at /\ reply' = reply /\ ran' = ran /\ conn' = conn
    BY <1>1 DEF Arrive
  <2>2. CASE q # r
    <3>1. pc'[q] = pc[q] /\ status'[q] = status[q] /\ form'[q] = form[q]
      BY <1>1, <1>d, <2>2 DEF Arrive
    <3> QED
      BY <1>b, <2>1, <3>1
  <2>3. CASE q = r
    <3>1. step[r] = 0 /\ at[r] = 0 /\ ran[r] = 0 /\ reply[r] # "sent"
      BY <1>1, <1>b, <1>c, <1>d DEF Arrive
    <3>2. pc'[r] # "waiting" /\ status'[r] # 200
      BY <1>1, <1>d DEF Arrive, Written
    <3> QED
      BY <2>1, <2>3, <3>1, <3>2
  <2> QED
    BY <2>2, <2>3
<1>2. ASSUME NEW r \in Request, NEW f \in Form[r], Crash(r, f) PROVE \A q \in Request : Ledger(q)'
  BY <1>2, <1>a, <1>b, <1>c, <1>d DEF Crash
<1>3. ASSUME NEW r \in Request, Finish(r) PROVE \A q \in Request : Ledger(q)'
  BY <1>3, <1>a, <1>b, <1>c, <1>d DEF Finish
<1>4. ASSUME NEW r \in Request, FailAtOnce(r) PROVE \A q \in Request : Ledger(q)'
  BY <1>4, <1>a, <1>b, <1>c, <1>d DEF FailAtOnce, Calls, Fail
<1>5. ASSUME NEW r \in Request, Enter(r) PROVE \A q \in Request : Ledger(q)'
  BY <1>5, <1>a, <1>b, <1>c, <1>d DEF Enter, Calls
<1>6. ASSUME NEW r \in Request, Clash(r) PROVE \A q \in Request : Ledger(q)'
  BY <1>6 DEF Clash
<1>7. ASSUME NEW r \in Request, Refuse(r) PROVE \A q \in Request : Ledger(q)'
  BY <1>7, <1>a, <1>b, <1>c, <1>d DEF Refuse
<1>8. ASSUME NEW r \in Request, ReadRefused(r) PROVE \A q \in Request : Ledger(q)'
  BY <1>8, <1>a, <1>b, <1>c, <1>d DEF ReadRefused, Fail
<1>9. ASSUME NEW r \in Request, Lock(r) PROVE \A q \in Request : Ledger(q)'
  BY <1>9, <1>a, <1>b, <1>c, <1>d DEF Lock
<1>10. ASSUME NEW r \in Request, LockInVain(r) PROVE \A q \in Request : Ledger(q)'
  BY <1>10, <1>a, <1>b, <1>c, <1>d DEF LockInVain, NoRows, Fail, Proceed, Writes
<1>11. ASSUME NEW r \in Request, Send(r) PROVE \A q \in Request : Ledger(q)'
  <2> SUFFICES ASSUME NEW q \in Request PROVE Ledger(q)'
    OBVIOUS
  <2>1. /\ step' = step /\ status' = status /\ ran' = ran /\ form' = form /\ conn' = conn
        /\ pc[r] = "locked"
    BY <1>11, <1>b DEF Send
  <2>2. CASE q # r
    <3>1. pc'[q] = pc[q] /\ at'[q] = at[q] /\ reply'[q] = reply[q]
      BY <1>11, <1>d, <2>2 DEF Send
    <3> QED
      BY <1>b, <2>1, <3>1
  <2>3. CASE q = r
    <3>1. pc'[r] = "waiting" /\ at'[r] = step[r] + 1 /\ reply'[r] = "sent"
      BY <1>11, <1>d DEF Send
    <3>2. at[r] <= step[r] /\ ran[r] <= at[r] /\ (status[r] # 200 \/ ~Writes(form[r]))
      BY <1>b, <1>c, <2>1
    <3>3. ran[r] < step[r] + 1
      BY <1>b, <1>c, <1>d, <3>2
    <3> QED
      BY <1>b, <1>d, <2>1, <2>3, <3>1, <3>2, <3>3
  <2> QED
    BY <2>2, <2>3
<1>12. ASSUME NEW r \in Request, Read(r) PROVE \A q \in Request : Ledger(q)'
  BY <1>12, <1>a, <1>b, <1>c, <1>d DEF Read, Waits, Fail, Proceed
<1>13. ASSUME NEW r \in Request, ReadPast(r) PROVE \A q \in Request : Ledger(q)'
  BY <1>13, <1>a, <1>b, <1>c, <1>d DEF ReadPast, Waits
<1>14. ASSUME NEW r \in Request, ReadUsed(r) PROVE \A q \in Request : Ledger(q)'
  BY <1>14, <1>a, <1>b, <1>c, <1>d DEF ReadUsed, Waits, NoRows, Fail, Proceed, Writes
<1>15. ASSUME NEW r \in Request, ReadBusy(r) PROVE \A q \in Request : Ledger(q)'
  BY <1>15, <1>a, <1>b, <1>c, <1>d DEF ReadBusy, Waits, Fail
<1>16. ASSUME NEW r \in Request, CancelCall(r) PROVE \A q \in Request : Ledger(q)'
  BY <1>16, <1>a, <1>b, <1>c, <1>d DEF CancelCall, Fail
<1>17. ASSUME NEW r \in Request, ReadClosed(r) PROVE \A q \in Request : Ledger(q)'
  BY <1>17, <1>a, <1>b, <1>c, <1>d DEF ReadClosed, Fail
<1>18. ASSUME NEW r \in Request, Muddle(r) PROVE \A q \in Request : Ledger(q)'
  BY <1>18, <1>b DEF Muddle
<1>19. ASSUME NEW r \in Request, Execute(r) PROVE \A q \in Request : Ledger(q)'
  BY <1>19, <1>a, <1>b, <1>c, <1>d DEF Execute, Succeeds, Writes
<1>20. ASSUME NEW r \in Request, ExecuteTorn(r) PROVE \A q \in Request : Ledger(q)'
  BY <1>20, <1>b DEF ExecuteTorn
<1>21. ASSUME NEW r \in Request, Disconnect(r) PROVE \A q \in Request : Ledger(q)'
  BY <1>21, <1>a, <1>b, <1>c, <1>d DEF Disconnect
<1>22. CASE Drop
  BY <1>22, <1>a, <1>b, <1>c, <1>d DEF Drop
<1>23. CASE UNCHANGED vars
  BY <1>23, <1>a, <1>b, <1>c, <1>d DEF vars
<1> QED
  BY <1>1, <1>2, <1>3, <1>4, <1>5, <1>6, <1>7, <1>8, <1>9, <1>10, <1>11,
     <1>12, <1>13, <1>14, <1>15, <1>16, <1>17, <1>18, <1>19, <1>20, <1>21,
     <1>22, <1>23 DEF Next, Handler

(* What an error leaves open, while its request is under way. *)
LEMMA ErrorsStep ==
  IInv /\ [Next]_vars /\ ~torn' => \A q \in Request : Errors(q)'
<1> SUFFICES ASSUME IInv, [Next]_vars, ~torn'
             PROVE  \A q \in Request : Errors(q)'
  OBVIOUS
<1>a. \A f \in Forms : /\ Count(f) \in Nat /\ f.op \in Op
                       /\ f.op # "file" => Count(f) = 1
                       /\ f.op = "word" => Len(f.values) = 1
                       /\ Len(f.values) \in Nat
  BY FormFacts
<1>b. ~torn /\ conn # "torn" /\ \A q \in Request : Ledger(q) /\ Errors(q)
  BY TornStep DEF IInv
<1>c. \A q \in Request : Progress(q)
  BY DEF IInv
<1>d. TypeOK
  BY DEF IInv
<1> USE DEF TypeOK, PC, InFront, handler, wire, link, Progress, Ledger, Errors
<1>1. ASSUME NEW r \in Request, NEW f \in Form[r], Arrive(r, f) PROVE \A q \in Request : Errors(q)'
  BY <1>1, <1>a, <1>b, <1>c, <1>d DEF Arrive, Written
<1>2. ASSUME NEW r \in Request, NEW f \in Form[r], Crash(r, f) PROVE \A q \in Request : Errors(q)'
  BY <1>2, <1>a, <1>b, <1>c, <1>d DEF Crash
<1>3. ASSUME NEW r \in Request, Finish(r) PROVE \A q \in Request : Errors(q)'
  BY <1>3, <1>a, <1>b, <1>c, <1>d DEF Finish
<1>4. ASSUME NEW r \in Request, FailAtOnce(r) PROVE \A q \in Request : Errors(q)'
  BY <1>4, <1>a, <1>b, <1>c, <1>d DEF FailAtOnce, Calls, Fail
<1>5. ASSUME NEW r \in Request, Enter(r) PROVE \A q \in Request : Errors(q)'
  <2>1. form[r] \in Forms /\ step[r] < Count(form[r]) /\ at[r] <= step[r]
    BY <1>5, <1>c, <1>d DEF Enter, Calls
  <2>2. form[r].op # "file" => reply[r] # "sent"
    <3>1. form[r].op # "file" => Count(form[r]) = 1
      BY <2>1, FormFacts
    <3>2. (reply[r] = "sent" => at[r] > 0) /\ at[r] \in Nat /\ step[r] \in Nat
      BY <1>c, <1>d
    <3> QED
      BY <2>1, <3>1, <3>2
  <2>3. /\ form' = form /\ ran' = ran /\ reply' = reply /\ status' = status
        /\ conn' = conn /\ reader' = {r} /\ pc[r] = "ready" /\ pc'[r] = "entered"
        /\ \A q \in Request : q # r => pc'[q] = pc[q]
    BY <1>5, <1>d DEF Enter, Calls
  <2> QED
    BY <1>b, <2>2, <2>3
<1>6. ASSUME NEW r \in Request, Clash(r) PROVE \A q \in Request : Errors(q)'
  BY <1>6 DEF Clash
<1>7. ASSUME NEW r \in Request, Refuse(r) PROVE \A q \in Request : Errors(q)'
  BY <1>7, <1>a, <1>b, <1>c, <1>d DEF Refuse
<1>8. ASSUME NEW r \in Request, ReadRefused(r) PROVE \A q \in Request : Errors(q)'
  BY <1>8, <1>a, <1>b, <1>c, <1>d DEF ReadRefused, Fail
<1>9. ASSUME NEW r \in Request, Lock(r) PROVE \A q \in Request : Errors(q)'
  BY <1>9, <1>a, <1>b, <1>c, <1>d DEF Lock
<1>10. ASSUME NEW r \in Request, LockInVain(r) PROVE \A q \in Request : Errors(q)'
  BY <1>10, <1>a, <1>b, <1>c, <1>d DEF LockInVain, NoRows, Fail, Proceed
<1>11. ASSUME NEW r \in Request, Send(r) PROVE \A q \in Request : Errors(q)'
  BY <1>11, <1>a, <1>b, <1>c, <1>d DEF Send
<1>12. ASSUME NEW r \in Request, Read(r) PROVE \A q \in Request : Errors(q)'
  BY <1>12, <1>a, <1>b, <1>c, <1>d DEF Read, Waits, Fail, Proceed
<1>13. ASSUME NEW r \in Request, ReadPast(r) PROVE \A q \in Request : Errors(q)'
  BY <1>13, <1>a, <1>b, <1>c, <1>d DEF ReadPast, Waits
<1>14. ASSUME NEW r \in Request, ReadUsed(r) PROVE \A q \in Request : Errors(q)'
  BY <1>14, <1>a, <1>b, <1>c, <1>d DEF ReadUsed, Waits, NoRows, Fail, Proceed
<1>15. ASSUME NEW r \in Request, ReadBusy(r) PROVE \A q \in Request : Errors(q)'
  BY <1>15, <1>a, <1>b, <1>c, <1>d DEF ReadBusy, Waits, Fail
<1>16. ASSUME NEW r \in Request, CancelCall(r) PROVE \A q \in Request : Errors(q)'
  BY <1>16, <1>a, <1>b, <1>c, <1>d DEF CancelCall, Fail
<1>17. ASSUME NEW r \in Request, ReadClosed(r) PROVE \A q \in Request : Errors(q)'
  BY <1>17, <1>a, <1>b, <1>c, <1>d DEF ReadClosed, Fail
<1>18. ASSUME NEW r \in Request, Muddle(r) PROVE \A q \in Request : Errors(q)'
  BY <1>18, <1>b DEF Muddle
<1>19. ASSUME NEW r \in Request, Execute(r) PROVE \A q \in Request : Errors(q)'
  <2> SUFFICES ASSUME NEW q \in Request PROVE Errors(q)'
    OBVIOUS
  <2>1. /\ form' = form /\ pc' = pc /\ status' = status /\ conn' = conn /\ reader' = reader
        /\ reply[r] = "sent"
        /\ ran' = [ran EXCEPT ![r] = IF TakesEffect(form[r], at[r]) THEN @ + 1 ELSE @]
        /\ reply' = [reply EXCEPT ![r] =
                       IF Succeeds(form[r], at[r]) THEN "ok" ELSE "failed"]
    BY <1>19, <1>b DEF Execute
  <2>2. CASE q # r
    BY <1>b, <1>d, <2>1, <2>2
  <2>3. ASSUME form[r].op # "file", reply'[r] = "failed", ran'[r] > 0
        PROVE  EmptyBatch(form[r])
    <3>1. form[r] \in Forms /\ at[r] <= 1 /\ ran[r] = 0
      <4>1. at[r] > 0 /\ form[r] \in Forms /\ at[r] <= Count(form[r])
        BY <1>c, <1>d, <2>1
      <4>2. Count(form[r]) = 1
        BY <2>3, <4>1, FormFacts
      <4>3. ran[r] < at[r] /\ ran[r] \in Nat /\ at[r] \in Nat
        BY <1>b, <1>d, <2>1
      <4> QED
        BY <4>1, <4>2, <4>3
    <3>2. TakesEffect(form[r], at[r]) /\ ~Succeeds(form[r], at[r])
      BY <1>d, <2>1, <2>3, <3>1
    <3>3. ~(Len(form[r].values) > 0)
      BY <3>2 DEF Succeeds
    <3>4. form[r].op # "word" /\ Len(form[r].values) = 0
      <4>1. Len(form[r].values) \in Nat /\ (form[r].op = "word" => Len(form[r].values) = 1)
        BY <3>1, FormFacts
      <4>2. Len(form[r].values) = 0
        BY <3>3, <4>1
      <4> QED
        BY <4>1, <4>2
    <3>5. form[r].op \in {"image", "phrases"}
      BY <2>3, <3>2, <3>4 DEF TakesEffect
    <3> QED
      BY <3>4, <3>5 DEF EmptyBatch
  <2>4. CASE q = r
    BY <1>b, <1>d, <2>1, <2>3, <2>4
  <2> QED
    BY <2>2, <2>4
<1>20. ASSUME NEW r \in Request, ExecuteTorn(r) PROVE \A q \in Request : Errors(q)'
  BY <1>20, <1>b DEF ExecuteTorn
<1>21. ASSUME NEW r \in Request, Disconnect(r) PROVE \A q \in Request : Errors(q)'
  BY <1>21, <1>a, <1>b, <1>c, <1>d DEF Disconnect
<1>22. CASE Drop
  BY <1>22, <1>a, <1>b, <1>c, <1>d DEF Drop
<1>23. CASE UNCHANGED vars
  BY <1>23, <1>a, <1>b, <1>c, <1>d DEF vars
<1> QED
  BY <1>1, <1>2, <1>3, <1>4, <1>5, <1>6, <1>7, <1>8, <1>9, <1>10, <1>11,
     <1>12, <1>13, <1>14, <1>15, <1>16, <1>17, <1>18, <1>19, <1>20, <1>21,
     <1>22, <1>23 DEF Next, Handler

(* ... and when it has been answered. *)
LEMMA FailureStep == IInv /\ [Next]_vars => FailureIsExplained'
<1> SUFFICES ASSUME IInv, [Next]_vars, ~torn' PROVE FailureIsExplained'
  BY DEF FailureIsExplained
<1>a. \A f \in Forms : /\ Count(f) \in Nat /\ f.op \in Op
                       /\ f.op # "file" => Count(f) = 1
                       /\ f.op = "word" => Len(f.values) = 1
                       /\ Len(f.values) \in Nat
  BY FormFacts
<1>b. ~torn /\ conn # "torn" /\ \A q \in Request : Ledger(q) /\ Errors(q)
  BY TornStep DEF IInv
<1>c. \A q \in Request : Progress(q)
  BY DEF IInv
<1>d. TypeOK
  BY DEF IInv
<1>e. FailureIsExplained
  BY DEF IInv
<1> USE DEF TypeOK, PC, InFront, handler, wire, link, Progress, Ledger, Errors, FailureIsExplained, Answered
<1>1. ASSUME NEW r \in Request, NEW f \in Form[r], Arrive(r, f) PROVE FailureIsExplained'
  BY <1>1, <1>a, <1>b, <1>c, <1>d, <1>e DEF Arrive
<1>2. ASSUME NEW r \in Request, NEW f \in Form[r], Crash(r, f) PROVE FailureIsExplained'
  BY <1>2, <1>a, <1>b, <1>c, <1>d, <1>e DEF Crash
<1>3. ASSUME NEW r \in Request, Finish(r) PROVE FailureIsExplained'
  BY <1>3, <1>a, <1>b, <1>c, <1>d, <1>e DEF Finish
<1>4. ASSUME NEW r \in Request, FailAtOnce(r) PROVE FailureIsExplained'
  <2>1. form[r] \in Forms /\ step[r] < Count(form[r]) /\ at[r] <= step[r]
    BY <1>4, <1>c, <1>d DEF FailAtOnce, Calls, Fail
  <2>2. form[r].op # "file" => ran[r] = 0
    <3>1. form[r].op # "file" => Count(form[r]) = 1
      BY <2>1, FormFacts
    <3>2. ran[r] <= at[r] /\ ran[r] \in Nat /\ at[r] \in Nat /\ step[r] \in Nat
      BY <1>b, <1>d
    <3> QED
      BY <2>1, <3>1, <3>2
  <2>3. /\ form' = form /\ ran' = ran /\ reader' = reader
        /\ (conn = "closed" => conn' = "closed")
        /\ \A q \in Request : q # r => pc'[q] = pc[q] /\ status'[q] = status[q]
    BY <1>4, <1>d DEF FailAtOnce, Calls, Fail
  <2> QED
    BY <1>b, <1>e, <2>2, <2>3
<1>5. ASSUME NEW r \in Request, Enter(r) PROVE FailureIsExplained'
  BY <1>5, <1>a, <1>b, <1>c, <1>d, <1>e DEF Enter, Calls
<1>6. ASSUME NEW r \in Request, Clash(r) PROVE FailureIsExplained'
  BY <1>6 DEF Clash
<1>7. ASSUME NEW r \in Request, Refuse(r) PROVE FailureIsExplained'
  BY <1>7, <1>a, <1>b, <1>c, <1>d, <1>e DEF Refuse
<1>8. ASSUME NEW r \in Request, ReadRefused(r) PROVE FailureIsExplained'
  <2>1. form[r] \in Forms /\ step[r] < Count(form[r]) /\ at[r] <= step[r]
    BY <1>8, <1>c, <1>d DEF ReadRefused, Fail
  <2>2. form[r].op # "file" => ran[r] = 0
    <3>1. form[r].op # "file" => Count(form[r]) = 1
      BY <2>1, FormFacts
    <3>2. ran[r] <= at[r] /\ ran[r] \in Nat /\ at[r] \in Nat /\ step[r] \in Nat
      BY <1>b, <1>d
    <3> QED
      BY <2>1, <3>1, <3>2
  <2>3. /\ form' = form /\ ran' = ran /\ reader' = reader
        /\ (conn = "closed" => conn' = "closed")
        /\ \A q \in Request : q # r => pc'[q] = pc[q] /\ status'[q] = status[q]
    BY <1>8, <1>d DEF ReadRefused, Fail
  <2> QED
    BY <1>b, <1>e, <2>2, <2>3
<1>9. ASSUME NEW r \in Request, Lock(r) PROVE FailureIsExplained'
  BY <1>9, <1>a, <1>b, <1>c, <1>d, <1>e DEF Lock
<1>10. ASSUME NEW r \in Request, LockInVain(r) PROVE FailureIsExplained'
  <2>1. form[r] \in Forms /\ step[r] < Count(form[r]) /\ at[r] <= step[r]
    BY <1>10, <1>c, <1>d DEF LockInVain, NoRows, Fail, Proceed
  <2>2. form[r].op # "file" => ran[r] = 0
    <3>1. form[r].op # "file" => Count(form[r]) = 1
      BY <2>1, FormFacts
    <3>2. ran[r] <= at[r] /\ ran[r] \in Nat /\ at[r] \in Nat /\ step[r] \in Nat
      BY <1>b, <1>d
    <3> QED
      BY <2>1, <3>1, <3>2
  <2>3. /\ form' = form /\ ran' = ran /\ reader' = reader
        /\ (conn = "closed" => conn' = "closed")
        /\ \A q \in Request : q # r => pc'[q] = pc[q] /\ status'[q] = status[q]
    BY <1>10, <1>d DEF LockInVain, NoRows, Fail, Proceed
  <2> QED
    BY <1>b, <1>e, <2>2, <2>3
<1>11. ASSUME NEW r \in Request, Send(r) PROVE FailureIsExplained'
  BY <1>11, <1>a, <1>b, <1>c, <1>d, <1>e DEF Send
<1>12. ASSUME NEW r \in Request, Read(r) PROVE FailureIsExplained'
  BY <1>12, <1>a, <1>b, <1>c, <1>d, <1>e DEF Read, Waits, Fail, Proceed
<1>13. ASSUME NEW r \in Request, ReadPast(r) PROVE FailureIsExplained'
  BY <1>13, <1>a, <1>b, <1>c, <1>d, <1>e DEF ReadPast, Waits
<1>14. ASSUME NEW r \in Request, ReadUsed(r) PROVE FailureIsExplained'
  BY <1>14, <1>a, <1>b, <1>c, <1>d, <1>e DEF ReadUsed, Waits, NoRows, Fail, Proceed
<1>15. ASSUME NEW r \in Request, ReadBusy(r) PROVE FailureIsExplained'
  BY <1>15, <1>a, <1>b, <1>c, <1>d, <1>e DEF ReadBusy, Waits, Fail
<1>16. ASSUME NEW r \in Request, CancelCall(r) PROVE FailureIsExplained'
  BY <1>16, <1>a, <1>b, <1>c, <1>d, <1>e DEF CancelCall, Fail
<1>17. ASSUME NEW r \in Request, ReadClosed(r) PROVE FailureIsExplained'
  BY <1>17, <1>a, <1>b, <1>c, <1>d, <1>e DEF ReadClosed, Fail
<1>18. ASSUME NEW r \in Request, Muddle(r) PROVE FailureIsExplained'
  BY <1>18, <1>b DEF Muddle
<1>19. ASSUME NEW r \in Request, Execute(r) PROVE FailureIsExplained'
  BY <1>19, <1>a, <1>b, <1>c, <1>d, <1>e DEF Execute
<1>20. ASSUME NEW r \in Request, ExecuteTorn(r) PROVE FailureIsExplained'
  BY <1>20, <1>b DEF ExecuteTorn
<1>21. ASSUME NEW r \in Request, Disconnect(r) PROVE FailureIsExplained'
  BY <1>21, <1>a, <1>b, <1>c, <1>d, <1>e DEF Disconnect
<1>22. CASE Drop
  BY <1>22, <1>a, <1>b, <1>c, <1>d, <1>e DEF Drop
<1>23. CASE UNCHANGED vars
  BY <1>23, <1>a, <1>b, <1>c, <1>d, <1>e DEF vars
<1> QED
  BY <1>1, <1>2, <1>3, <1>4, <1>5, <1>6, <1>7, <1>8, <1>9, <1>10, <1>11,
     <1>12, <1>13, <1>14, <1>15, <1>16, <1>17, <1>18, <1>19, <1>20, <1>21,
     <1>22, <1>23 DEF Next, Handler

(* IInv holds initially. *)
LEMMA ApiInitIInv == Init => IInv
<1> SUFFICES ASSUME Init PROVE IInv
  OBVIOUS
<1> USE DEF Init
<1>1. TypeOK
  BY DEF TypeOK, PC, Status
<1>2. ASSUME NEW r \in Request PROVE Progress(r) /\ Ledger(r) /\ Errors(r)
  BY DEF Progress, Ledger, Errors, InFront
<1>3. OneCallAtATime
  BY DEF OneCallAtATime, InFront, Holds
<1>4. FailureIsExplained
  BY DEF FailureIsExplained, Answered
<1> QED
  BY <1>1, <1>2, <1>3, <1>4 DEF IInv

(* Every step of the API keeps IInv. *)
LEMMA ApiNextIInv == IInv /\ [Next]_vars => IInv'
BY TypeStep, StatusStep, ProgressStep, OneCallStep, LedgerStep, ErrorsStep, FailureStep DEF IInv

(* The API's inductive invariant. *)
THEOREM ApiInvariance == Spec => []IInv
BY ApiInitIInv, ApiNextIInv, PTL DEF Spec

(* The variables of the API keep their types. *)
THEOREM ApiTypeCorrect == Spec => []TypeOK
<1>1. IInv => TypeOK
  BY DEF IInv
<1> QED
  BY <1>1, ApiInvariance, PTL

(* Until the connection is torn, only one call uses it. *)
THEOREM CallsExclude == Spec => []OneCallAtATime
<1>1. IInv => OneCallAtATime
  BY DEF IInv
<1> QED
  BY <1>1, ApiInvariance, PTL

(* Until the connection is torn, a 200 means that everything is stored. *)
THEOREM AcksAreStored == Spec => []AckedIsStored
<1>1. IInv => AckedIsStored
  BY DEF IInv, Ledger, AckedIsStored, Answered
<1> QED
  BY <1>1, ApiInvariance, PTL

(* Until the connection is torn, no request takes effect twice. *)
THEOREM EffectsAtMostOnce == Spec => []AtMostOnce
<1>1. IInv => AtMostOnce
  <2> SUFFICES ASSUME IInv, ~torn, NEW r \in Request
               PROVE  ran[r] <= at[r] /\ at[r] <= Count(form[r])
    BY DEF AtMostOnce
  <2>1. ran[r] <= at[r] /\ at[r] \in Nat
    BY DEF IInv, Ledger, TypeOK
  <2>2. CASE at[r] > 0
    BY <2>1, <2>2 DEF IInv, Progress
  <2>3. CASE at[r] = 0
    <3>1. Count(form[r]) >= 0
      BY FormFacts DEF IInv, TypeOK, Count, NoForm
    <3> QED
      BY <2>1, <2>3, <3>1
  <2> QED
    BY <2>1, <2>2, <2>3
<1> QED
  BY <1>1, ApiInvariance, PTL

(* Until the connection is torn, an error answered for one statement means *)
(* that nothing is stored, but for empty batches, a closed connection and  *)
(* a reader that another call has overwritten or used up.                  *)
THEOREM FailuresAreExplained == Spec => []FailureIsExplained
<1>1. IInv => FailureIsExplained
  BY DEF IInv
<1> QED
  BY <1>1, ApiInvariance, PTL

(* The API implements the database: its tables change by statements only.  *)
THEOREM ApiImplementsStore == Spec => ImplementsStore
<1>1. Init => StoreInit
  BY DEF Init
<1>2. IInv /\ [Next]_vars => [StoreNext]_tables
  BY StepIsOfStore DEF IInv
<1> QED
  BY <1>1, <1>2, ApiInvariance, PTL DEF Spec, ImplementsStore, StoreSpec

(* So the tables under the API are sound, torn connection or not. *)
THEOREM ApiKeepsIntegrity == Spec => []Integrity
BY ApiImplementsStore, StoreInvariance DEF ImplementsStore

(* A step with the connection lost sends nothing, and acknowledges a       *)
(* request only if all its statements have gone out and are behind it.     *)
LEMMA AckStep == IInv /\ [Next]_vars => [AckedBefore]_vars
<1> SUFFICES ASSUME IInv, [Next]_vars, ~UNCHANGED vars PROVE AckedBefore
  OBVIOUS
<1>a. TypeOK /\ (\A r \in Request : Progress(r)) /\ OneCallAtATime
  BY DEF IInv
<1>b. (conn = "torn" => torn) /\ (~torn' => ~torn)
  BY TornStep DEF IInv
<1> USE DEF TypeOK, PC, Status, Lost, InFront, handler, wire, link, AckedBefore
<1>1. ASSUME NEW r \in Request, NEW f \in Form[r], Arrive(r, f) PROVE AckedBefore
  BY <1>1, <1>a, <1>b DEF Arrive, Written
<1>2. ASSUME NEW r \in Request, NEW f \in Form[r], Crash(r, f) PROVE AckedBefore
  BY <1>2, <1>a, <1>b DEF Crash
<1>3. ASSUME NEW r \in Request, Finish(r) PROVE AckedBefore
  <2>1. ~torn /\ status[r] = 0 /\ Writes(form[r]) => at[r] = step[r]
    BY <1>3 DEF Finish, IInv, Ledger
  <2> QED
    BY <1>3, <1>a, <1>b, <2>1 DEF Finish
<1>4. ASSUME NEW r \in Request, FailAtOnce(r) PROVE AckedBefore
  BY <1>4, <1>a, <1>b DEF FailAtOnce, Calls, Fail
<1>5. ASSUME NEW r \in Request, Enter(r) PROVE AckedBefore
  BY <1>5, <1>a, <1>b DEF Enter, Calls
<1>6. ASSUME NEW r \in Request, Clash(r) PROVE AckedBefore
  BY <1>6, <1>a, <1>b DEF Clash, Calls
<1>7. ASSUME NEW r \in Request, Refuse(r) PROVE AckedBefore
  BY <1>7, <1>a, <1>b DEF Refuse
<1>8. ASSUME NEW r \in Request, ReadRefused(r) PROVE AckedBefore
  BY <1>8, <1>a, <1>b DEF ReadRefused, Fail
<1>9. ASSUME NEW r \in Request, Lock(r) PROVE AckedBefore
  BY <1>9, <1>a, <1>b DEF Lock
<1>10. ASSUME NEW r \in Request, LockInVain(r) PROVE AckedBefore
  BY <1>10, <1>a, <1>b DEF LockInVain, NoRows, Fail, Proceed
<1>11. ASSUME NEW r \in Request, Send(r) PROVE AckedBefore
  BY <1>11, <1>a, <1>b DEF Send, OneCallAtATime, Holds
<1>12. ASSUME NEW r \in Request, Read(r) PROVE AckedBefore
  BY <1>12, <1>a, <1>b DEF Read, Waits, Fail, Proceed
<1>13. ASSUME NEW r \in Request, ReadPast(r) PROVE AckedBefore
  BY <1>13, <1>a, <1>b DEF ReadPast, Waits
<1>14. ASSUME NEW r \in Request, ReadUsed(r) PROVE AckedBefore
  BY <1>14, <1>a, <1>b DEF ReadUsed, Waits, NoRows, Fail, Proceed
<1>15. ASSUME NEW r \in Request, ReadBusy(r) PROVE AckedBefore
  BY <1>15, <1>a, <1>b DEF ReadBusy, Waits, Fail
<1>16. ASSUME NEW r \in Request, CancelCall(r) PROVE AckedBefore
  BY <1>16, <1>a, <1>b DEF CancelCall, Fail
<1>17. ASSUME NEW r \in Request, ReadClosed(r) PROVE AckedBefore
  BY <1>17, <1>a, <1>b DEF ReadClosed, Fail
<1>18. ASSUME NEW r \in Request, Muddle(r) PROVE AckedBefore
  BY <1>18, <1>a, <1>b DEF Muddle, Fail, Proceed
<1>19. ASSUME NEW r \in Request, Execute(r) PROVE AckedBefore
  BY <1>19, <1>a, <1>b DEF Execute
<1>20. ASSUME NEW r \in Request, ExecuteTorn(r) PROVE AckedBefore
  BY <1>20, <1>a, <1>b DEF ExecuteTorn
<1>21. ASSUME NEW r \in Request, Disconnect(r) PROVE AckedBefore
  BY <1>21, <1>a, <1>b DEF Disconnect
<1>22. CASE Drop
  BY <1>22, <1>a, <1>b DEF Drop
<1> QED
  BY <1>1, <1>2, <1>3, <1>4, <1>5, <1>6, <1>7, <1>8, <1>9, <1>10, <1>11,
     <1>12, <1>13, <1>14, <1>15, <1>16, <1>17, <1>18, <1>19, <1>20, <1>21,
     <1>22 DEF Next, Handler

(* Once the connection is lost no request is acknowledged any more but     *)
(* those whose statements had all gone out and been answered before.       *)
THEOREM NoAcksAfterClose == Spec => NoAckAfterClose
<1>1. IInv /\ [Next]_vars => [AckedBefore]_vars
  BY AckStep
<1> QED
  BY <1>1, ApiInvariance, PTL DEF Spec, NoAckAfterClose

(* Upload r of phrases has been told that its batch is stored. *)
Owner(r) == form[r].op = "phrases" /\ reply[r] = "ok"

(* An owner has its batch, no two owners have one name, and only an owner  *)
(* is, or is about to be, answered with 200.                               *)
Owners ==
  /\ \A r \in Request : pc[r] = "new" => reply[r] = "none"
  /\ \A r \in Request : Owner(r) => \E b \in phraseBatches : b.name = form[r].name
  /\ \A r, q \in Request : Owner(r) /\ Owner(q) /\ form[r].name = form[q].name => r = q
  /\ \A r \in Request : form[r].op = "phrases" =>
       /\ status[r] = 200 => reply[r] = "ok"
       /\ pc[r] = "ready" /\ status[r] = 0 /\ step[r] = 1 => reply[r] = "ok"

(* The UNIQUE constraint lets a second upload of a name fail, and nothing  *)
(* is answered with 200 whose reply was a failure.                         *)
LEMMA OwnersStep ==
  IInv /\ Owners /\ [Next]_vars /\ ~torn' => Owners'
<1> SUFFICES ASSUME IInv, Owners, [Next]_vars, ~torn' PROVE Owners'
  OBVIOUS
<1>a. \A q \in Request : form[q].op = "phrases" => Count(form[q]) = 1
  BY DEF Count
<1>b. ~torn /\ conn # "torn" /\ \A q \in Request : Ledger(q)
  BY TornStep DEF IInv
<1>c. \A q \in Request : Progress(q)
  BY DEF IInv
<1>d. TypeOK
  BY DEF IInv
<1> USE DEF TypeOK, PC, InFront, handler, wire, link, tables, Owners, Owner
<1>1. ASSUME NEW r \in Request, NEW f \in Form[r], Arrive(r, f) PROVE Owners'
  <2>1. /\ UNCHANGED <<phraseBatches, reply, step>>
        /\ pc[r] = "new" /\ reply[r] = "none" /\ step[r] = 0
        /\ pc'[r] # "new" /\ status'[r] # 200
    BY <1>1, <1>c, <1>d DEF Arrive, Written, Progress
  <2>2. \A q \in Request : q # r =>
          form'[q] = form[q] /\ pc'[q] = pc[q] /\ status'[q] = status[q]
    BY <1>1, <1>d DEF Arrive
  <2> QED
    BY <2>1, <2>2
<1>2. ASSUME NEW r \in Request, NEW f \in Form[r], Crash(r, f) PROVE Owners'
  <2>1. /\ UNCHANGED <<phraseBatches, reply, step, status>>
        /\ pc[r] = "new" /\ reply[r] = "none" /\ status[r] = 0
        /\ \A q \in Request : pc'[q] = pc[q] \/ pc'[q] = "aborted"
        /\ pc'[r] = "aborted"
        /\ \A q \in Request : q # r => form'[q] = form[q]
    BY <1>2, <1>c, <1>d DEF Crash, Progress
  <2> QED
    BY <2>1
<1>3. ASSUME NEW r \in Request, Finish(r) PROVE Owners'
  BY <1>3, <1>a, <1>b, <1>c, <1>d DEF Finish, Progress, Ledger, Writes
<1>4. ASSUME NEW r \in Request, FailAtOnce(r) PROVE Owners'
  BY <1>4, <1>a, <1>b, <1>c, <1>d DEF FailAtOnce, Calls, Fail, Progress, Ledger, Writes
<1>5. ASSUME NEW r \in Request, Enter(r) PROVE Owners'
  BY <1>5, <1>a, <1>b, <1>c, <1>d DEF Enter, Calls, Progress, Ledger, Writes
<1>6. ASSUME NEW r \in Request, Clash(r) PROVE Owners'
  BY <1>6 DEF Clash
<1>7. ASSUME NEW r \in Request, Refuse(r) PROVE Owners'
  BY <1>7, <1>a, <1>b, <1>c, <1>d DEF Refuse, Progress, Ledger, Writes
<1>8. ASSUME NEW r \in Request, ReadRefused(r) PROVE Owners'
  BY <1>8, <1>a, <1>b, <1>c, <1>d DEF ReadRefused, Fail, Progress, Ledger, Writes
<1>9. ASSUME NEW r \in Request, Lock(r) PROVE Owners'
  BY <1>9, <1>a, <1>b, <1>c, <1>d DEF Lock, Progress, Ledger, Writes
<1>10. ASSUME NEW r \in Request, LockInVain(r) PROVE Owners'
  BY <1>10, <1>a, <1>b, <1>c, <1>d DEF LockInVain, NoRows, Fail, Proceed, Progress, Ledger, Writes
<1>11. ASSUME NEW r \in Request, Send(r) PROVE Owners'
  BY <1>11, <1>a, <1>b, <1>c, <1>d DEF Send, Progress, Ledger, Writes
<1>12. ASSUME NEW r \in Request, Read(r) PROVE Owners'
  BY <1>12, <1>a, <1>b, <1>c, <1>d DEF Read, Waits, Fail, Proceed, Progress, Ledger, Writes
<1>13. ASSUME NEW r \in Request, ReadPast(r) PROVE Owners'
  BY <1>13, <1>a, <1>b, <1>c, <1>d DEF ReadPast, Waits, Progress, Ledger, Writes
<1>14. ASSUME NEW r \in Request, ReadUsed(r) PROVE Owners'
  BY <1>14, <1>a, <1>b, <1>c, <1>d DEF ReadUsed, Waits, NoRows, Fail, Proceed, Progress, Ledger, Writes
<1>15. ASSUME NEW r \in Request, ReadBusy(r) PROVE Owners'
  BY <1>15, <1>a, <1>b, <1>c, <1>d DEF ReadBusy, Waits, Fail, Progress, Ledger, Writes
<1>16. ASSUME NEW r \in Request, CancelCall(r) PROVE Owners'
  BY <1>16, <1>a, <1>b, <1>c, <1>d DEF CancelCall, Fail, Progress, Ledger, Writes
<1>17. ASSUME NEW r \in Request, ReadClosed(r) PROVE Owners'
  BY <1>17, <1>a, <1>b, <1>c, <1>d DEF ReadClosed, Fail, Progress, Ledger, Writes
<1>18. ASSUME NEW r \in Request, Muddle(r) PROVE Owners'
  BY <1>18, <1>b DEF Muddle
<1>19. ASSUME NEW r \in Request, Execute(r) PROVE Owners'
  <2>1. /\ UNCHANGED <<form, pc, status, step>>
        /\ Statement(form[r], at[r])
        /\ reply[r] = "sent"
        /\ reply' = [reply EXCEPT ![r] = IF Succeeds(form[r], at[r]) THEN "ok" ELSE "failed"]
    BY <1>19, <1>b DEF Execute
  <2>2. pc[r] # "new"
    BY <2>1
  <2>3. phraseBatches \subseteq phraseBatches'
    BY <2>1 DEF Statement, CreateWord, CreateWordsBatch, CreatePhrasesBatch, InsertPhrases,
                DrawPhraseIds
  <2>4. ASSUME form[r].op = "phrases", reply'[r] = "ok"
        PROVE  /\ \E b \in phraseBatches' : b.name = form[r].name
               /\ \A b \in phraseBatches : b.name # form[r].name
    <3>1. TakesEffect(form[r], at[r])
      BY <1>d, <2>1, <2>4 DEF Succeeds
    <3>2. /\ Sendable(form[r].name, form[r].values)
          /\ PhrasesAllowed(form[r].name, form[r].values)
      BY <2>4, <3>1 DEF TakesEffect
    <3>3. InsertPhrases(form[r].name, form[r].values)
      BY <2>1, <2>4, <3>2 DEF Statement, CreatePhrasesBatch
    <3> DEFINE new == [id |-> issued.phraseBatches + 1, name |-> form[r].name]
    <3>4. new \in phraseBatches' /\ new.name = form[r].name
      BY <3>3 DEF InsertPhrases
    <3>5. \E b \in phraseBatches' : b.name = form[r].name
      <4> HIDE DEF new
      <4> QED
        BY <3>4
    <3> QED
      BY <3>2, <3>5 DEF PhrasesAllowed
  <2>5. \A q \in Request : q # r => reply'[q] = reply[q]
    BY <1>d, <2>1
  <2>6. \A q \in Request : Owner(q)' => \E b \in phraseBatches' : b.name = form'[q].name
    BY <2>1, <2>3, <2>4, <2>5
  <2>7. \A q, s \in Request : Owner(q)' /\ Owner(s)' /\ form'[q].name = form'[s].name => q = s
    BY <2>1, <2>4, <2>5
  <2>8. \A q \in Request : form'[q].op = "phrases" =>
          /\ status'[q] = 200 => reply'[q] = "ok"
          /\ pc'[q] = "ready" /\ status'[q] = 0 /\ step'[q] = 1 => reply'[q] = "ok"
    BY <2>1, <2>5
  <2> QED
    BY <2>1, <2>2, <2>5, <2>6, <2>7, <2>8
<1>20. ASSUME NEW r \in Request, ExecuteTorn(r) PROVE Owners'
  BY <1>20, <1>b DEF ExecuteTorn
<1>21. ASSUME NEW r \in Request, Disconnect(r) PROVE Owners'
  BY <1>21, <1>d DEF Disconnect
<1>22. CASE Drop
  BY <1>22, <1>d DEF Drop
<1>23. CASE UNCHANGED vars
  BY <1>23, <1>a, <1>b, <1>c, <1>d DEF vars
<1> QED
  BY <1>1, <1>2, <1>3, <1>4, <1>5, <1>6, <1>7, <1>8, <1>9, <1>10, <1>11,
     <1>12, <1>13, <1>14, <1>15, <1>16, <1>17, <1>18, <1>19, <1>20, <1>21,
     <1>22, <1>23 DEF Next, Handler

(* Of two uploads of phrases under one name at most one is acknowledged.   *)
THEOREM NamesHaveOneOwner == Spec => []OneOwnerPerName
<1> DEFINE OInv == ~torn => Owners
<1>1. Init => OInv
  BY DEF Init, Owners, Owner, NoForm
<1>2. IInv /\ OInv /\ [Next]_vars => OInv'
  BY OwnersStep, TornStep DEF IInv
<1>3. OInv => OneOwnerPerName
  BY DEF Owners, Owner, OneOwnerPerName, Answered
<1> HIDE DEF OInv
<1> QED
  BY <1>1, <1>2, <1>3, ApiInvariance, PTL DEF Spec
==============================================================================
