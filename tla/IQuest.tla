------------------------------- MODULE IQuest -------------------------------
(***************************************************************************)
(* The paging loops of the iquest client                                   *)
(* (src/iRODS/clients/icommands/src/iquest.c): queryAndShowStrCond for a   *)
(* general query and execAndShowSpecificQuery for --sql.  Each asks the    *)
(* catalog for up to MAX_SQL_ROWS rows, prints them, and while the answer  *)
(* carries a continueInx > 0 asks "Continue? [Y/n]" (unless --no-page) and *)
(* requests the next page with that continueInx.                           *)
(*                                                                         *)
(* The catalog is outside this repository and is modelled at the boundary *)
(* spec.md section 6 gives it: a request {maxRows, continuation} returns   *)
(* rows and a continuation token.  A token tells the client to ask again,  *)
(* not that rows remain: after a page that ends exactly at the last row    *)
(* the catalog may still return one, and the next request then finds no    *)
(* rows (CAT_NO_ROWS_FOUND).  Rows are numbered 1..total; a page is a       *)
(* range of row numbers.                                                   *)
(*                                                                         *)
(* main (lines 192-294) is modelled around the two loops: its early exits  *)
(* (options, environment, connection, login), the call of one of the two   *)
(* functions, rcDisconnect and the exit status.                            *)
(***************************************************************************)
EXTENDS Integers, Sequences, SequencesExt

CONSTANTS
    MaxSqlRows,     \* MAX_SQL_ROWS
    MaxTotal        \* bound on the number of rows the query matches

ASSUME MaxSqlRows \in Nat \ {0} /\ MaxTotal \in Nat

Kinds == {"general", "specific"}
Ok == 0
NoRows == -1        \* CAT_NO_ROWS_FOUND
OtherErr == -2      \* any other failure of the call or of printing

VARIABLES
    kind,       \* which function main called (line 255)
    noPage,     \* --no-page
    total,      \* rows the query matches in the catalog
    pc,         \* "query": the next rcGenQuery / rcSpecificQuery is due;
                \* "loop": at the while test; "ask": at the prompt; "done"
    cont,       \* continueInx of the request (genQueryInp / specificQueryInp)
    outCont,    \* continueInx of the last answer (genQueryOut)
    status,     \* i / status of the loop
    printed,    \* row numbers printed so far, in order
    declined,   \* the user answered "n"
    ret,        \* the function's return value once pc = "done"
    conn,       \* the rcComm_t of main: "none", "open", "closed" (rcDisconnect)
    exitCode    \* main's exit status once pc = "exit"

vars == <<kind, noPage, total, pc, cont, outCont, status, printed, declined, ret,
          conn, exitCode>>

\* The catalog's answers to a request at row offset o: the rows after o,
\* at most MaxSqlRows, and a token.  A token is the offset to continue at;
\* it is given when rows remain, and may be given when the page is full.
Answers(o) ==
    LET last == IF o + MaxSqlRows < total THEN o + MaxSqlRows ELSE total
    IN IF o >= total
       THEN {[st |-> NoRows, rows |-> <<>>, next |-> 0]}
       ELSE {[st |-> Ok, rows |-> [k \in 1..(last - o) |-> o + k], next |-> n] :
               n \in IF last < total THEN {last}
                     ELSE IF last - o = MaxSqlRows THEN {0, last} ELSE {0}}
            \cup {[st |-> OtherErr, rows |-> <<>>, next |-> 0]}

Init ==
    /\ kind \in Kinds /\ noPage \in BOOLEAN /\ total \in 0..MaxTotal
    /\ pc = "main" /\ cont = 0 /\ outCont = 0 /\ status = Ok
    /\ printed = <<>> /\ declined = FALSE /\ ret = Ok
    /\ conn = "none" /\ exitCode = 0

\* main up to the call (lines 204-259): a bad option or getRodsEnv failure
\* exits 1; -h, a missing condition or "attrs" exits 0; rcConnect failing
\* exits 2; clientLogin failing exits 3 with the connection still open.
\* Otherwise --sql selects execAndShowSpecificQuery, else
\* queryAndShowStrCond.
Startup ==
    /\ pc = "main"
    /\ \/ /\ exitCode' \in {0, 1, 2} /\ pc' = "exit" /\ UNCHANGED conn
       \/ /\ exitCode' = 3 /\ pc' = "exit" /\ conn' = "open"
       \/ /\ conn' = "open" /\ UNCHANGED exitCode
          /\ pc' = IF kind = "general" THEN "fill" ELSE "query"
    /\ UNCHANGED <<kind, noPage, total, cont, outCont, status, printed, declined, ret>>

\* fillGenQueryInpFromStrCond (lines 94-96): a condition string that does
\* not parse is returned before any request.
FillInp ==
    /\ pc = "fill"
    /\ \/ pc' = "query" /\ UNCHANGED <<status, ret>>
       \/ pc' = "done" /\ ret' = OtherErr /\ status' = OtherErr
    /\ UNCHANGED <<kind, noPage, total, cont, outCont, printed, declined, conn, exitCode>>

\* execAndShowSpecificQuery treats CAT_NO_ROWS_FOUND of its first request
\* as "No rows found" and success (lines 161-164); queryAndShowStrCond
\* returns it (lines 109-111).
FirstNoRowsOk(k) == k = "specific"

\* Mutant: a page is printed as MAX_SQL_ROWS rows whatever its rowCnt.
QueryPrintsMaxRows ==
    /\ pc = "query"
    /\ \E a \in Answers(cont) :
          \/ /\ a.st = Ok
             /\ printed' = printed \o [k \in 1..MaxSqlRows |-> cont + k]
             /\ outCont' = a.next
             /\ pc' = "loop" /\ status' = Ok
             /\ UNCHANGED ret
          \/ /\ a.st = Ok /\ kind = "general"
             /\ pc' = "done" /\ ret' = OtherErr /\ status' = OtherErr
             /\ UNCHANGED <<printed, outCont>>
          \/ /\ a.st = NoRows /\ cont = 0 /\ FirstNoRowsOk(kind)
             /\ pc' = "done" /\ ret' = Ok /\ status' = NoRows
             /\ UNCHANGED <<printed, outCont>>
          \/ /\ a.st # Ok /\ ~(a.st = NoRows /\ cont = 0 /\ FirstNoRowsOk(kind))
             /\ pc' = "done" /\ ret' = a.st /\ status' = a.st
             /\ UNCHANGED <<printed, outCont>>
    /\ UNCHANGED <<kind, noPage, total, cont, declined, conn, exitCode>>

\* One request and the printing of its rows: lines 109-115 / 125-131 for a
\* general query, lines 160-170 / 179-185 for a specific one.  Printing a
\* general result may itself fail (printGenQueryOut, line 113).
Query ==
    /\ pc = "query"
    /\ \E a \in Answers(cont) :
          \/ /\ a.st = Ok
             /\ printed' = printed \o a.rows
             /\ outCont' = a.next
             /\ pc' = "loop" /\ status' = Ok
             /\ UNCHANGED ret
          \/ /\ a.st = Ok /\ kind = "general"
             /\ pc' = "done" /\ ret' = OtherErr /\ status' = OtherErr
             /\ UNCHANGED <<printed, outCont>>
          \/ /\ a.st = NoRows /\ cont = 0 /\ FirstNoRowsOk(kind)
             /\ pc' = "done" /\ ret' = Ok /\ status' = NoRows
             /\ UNCHANGED <<printed, outCont>>
          \/ /\ a.st # Ok /\ ~(a.st = NoRows /\ cont = 0 /\ FirstNoRowsOk(kind))
             /\ pc' = "done" /\ ret' = a.st /\ status' = a.st
             /\ UNCHANGED <<printed, outCont>>
    /\ UNCHANGED <<kind, noPage, total, cont, declined, conn, exitCode>>

\* Mutant: with --no-page the request keeps its old continueInx (line 125
\* left out of that path).
LoopTestNoContCopy ==
    /\ pc = "loop"
    /\ IF status = Ok /\ outCont > 0
       THEN /\ pc' = IF noPage THEN "query" ELSE "ask"
            /\ UNCHANGED <<cont, ret>>
       ELSE /\ pc' = "done" /\ ret' = Ok /\ UNCHANGED cont
    /\ UNCHANGED <<kind, noPage, total, outCont, status, printed, declined, conn, exitCode>>

\* Mutant: the loop has no way out once the answer carries no continueInx.
LoopTestNoExit ==
    /\ pc = "loop"
    /\ status = Ok /\ outCont > 0
    /\ pc' = IF noPage THEN "query" ELSE "ask"
    /\ cont' = IF noPage THEN outCont ELSE cont
    /\ UNCHANGED <<kind, noPage, total, outCont, status, printed, declined, ret, conn, exitCode>>

\* The while test (lines 118, 172): go on while the last answer carries a
\* continueInx > 0, asking first unless --no-page; else return 0.
LoopTest ==
    /\ pc = "loop"
    /\ IF status = Ok /\ outCont > 0
       THEN /\ pc' = IF noPage THEN "query" ELSE "ask"
            /\ cont' = IF noPage THEN outCont ELSE cont
            /\ UNCHANGED ret
       ELSE /\ pc' = "done" /\ ret' = Ok /\ UNCHANGED cont
    /\ UNCHANGED <<kind, noPage, total, outCont, status, printed, declined, conn, exitCode>>

\* Mutant: the loop breaks on any answer but "n".
AskInverted ==
    /\ pc = "ask"
    /\ \E answer \in {"y", "n"} :
          IF answer # "n"
          THEN /\ pc' = "done" /\ ret' = Ok /\ declined' = FALSE
               /\ UNCHANGED cont
          ELSE /\ pc' = "query" /\ cont' = outCont
               /\ UNCHANGED <<ret, declined>>
    /\ UNCHANGED <<kind, noPage, total, outCont, status, printed, conn, exitCode>>

\* "Continue? [Y/n]" (lines 121-123, 175-177): "n" breaks out and the
\* function returns 0; anything else sets continueInx from the answer
\* (lines 125, 179).
Ask ==
    /\ pc = "ask"
    /\ \E answer \in {"y", "n"} :
          IF answer = "n"
          THEN /\ pc' = "done" /\ ret' = Ok /\ declined' = TRUE
               /\ UNCHANGED cont
          ELSE /\ pc' = "query" /\ cont' = outCont
               /\ UNCHANGED <<ret, declined>>
    /\ UNCHANGED <<kind, noPage, total, outCont, status, printed, conn, exitCode>>

\* After the call (lines 260-266, 285-292): rcDisconnect, then exit 4 when
\* the function returned < 0, else 0.
Finish ==
    /\ pc = "done"
    /\ conn' = "closed" /\ pc' = "exit"
    /\ exitCode' = IF ret < 0 THEN 4 ELSE 0
    /\ UNCHANGED <<kind, noPage, total, cont, outCont, status, printed, declined, ret>>

Next == Startup \/ FillInp \/ Query \/ LoopTest \/ Ask \/ Finish

Spec == Init /\ [][Next]_vars

\* iquest is one thread.  rcGenQuery and rcSpecificQuery return (a broken
\* connection is an error answer), and fgets at the prompt returns with a
\* line or, at end of input, with inbuf unset (either answer may follow):
\* the prompt step happens either way.  So every enabled step is eventually taken.
FairSpec == Spec /\ WF_vars(Next)

-----------------------------------------------------------------------------

TypeOK ==
    /\ kind \in Kinds /\ noPage \in BOOLEAN /\ total \in 0..MaxTotal
    /\ pc \in {"main", "fill", "query", "loop", "ask", "done", "exit"}
    /\ conn \in {"none", "open", "closed"} /\ exitCode \in 0..4
    /\ cont \in 0..MaxTotal /\ outCont \in 0..MaxTotal
    /\ status \in {Ok, NoRows, OtherErr} /\ ret \in {Ok, NoRows, OtherErr}
    /\ printed \in Seq(1..MaxTotal) /\ declined \in BOOLEAN

\* Paging never repeats or skips a row: what has been printed is always
\* the first rows of the result, each once, in catalog order.  This rests
\* on every request carrying the continueInx of the previous answer.
PrintedInOrder == printed = [k \in 1..Len(printed) |-> k]

\* When iquest has run its query and exits 0 without the user declining,
\* it has shown every row the query matches: no page is dropped between
\* the loop's continueInx hand-off and main's exit status.
CompleteUnlessDeclined ==
    (pc = "exit" /\ conn = "closed" /\ exitCode = 0 /\ ~declined)
        => Len(printed) = total

\* iquest always ends: the paging loop stops once an answer carries no
\* continueInx, and every path of main reaches exit().
EventuallyExits == <>(pc = "exit")

\* Lines 161-164: finding no rows is not an error.  So once every row has
\* been printed, iquest does not exit with the failure status 4.
AllPrintedMeansSuccess ==
    (pc = "exit" /\ conn = "closed" /\ total > 0 /\ Len(printed) = total
        /\ status # OtherErr)
        => exitCode = 0

=============================================================================
