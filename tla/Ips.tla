--------------------------------- MODULE Ips ---------------------------------
(***************************************************************************)
(* The listing of the ips client (src/iRODS/clients/icommands/src/ips.c):  *)
(* printProcStat walks the rows rcProcStat returned, prints a "Server:"    *)
(* header whenever the server address changes, skips rows without a       *)
(* client, and prints each connection with its uptime from getUptimeStr.   *)
(*                                                                         *)
(* The start time of an agent comes from the server's clock, curTime from  *)
(* the client's time(0).  getUptimeStr computes in unsigned int; here an   *)
(* unsigned int has UintBits bits (TLC's own integers are 32-bit signed,   *)
(* so the run uses a narrower width; the wrap-around is the same).         *)
(* Output text is a sequence of records, not characters.                   *)
(*                                                                         *)
(* main (lines 19-84) is modelled around printProcStat: its early exits,   *)
(* rcProcStat (which may fail for some server and still return the rows   *)
(* of the others), the listing, rcDisconnect and the exit status.         *)
(***************************************************************************)
EXTENDS Integers, Sequences, SequencesExt

CONSTANTS
    Servers,        \* serverAddr values
    Clients,        \* clientName values; "" means no connection
    StartTimes,     \* startTime values in the rows (server clock)
    CurTime,        \* time(0) on the client
    MaxRows,        \* bound on rowCnt
    UintBits        \* width of unsigned int

ASSUME /\ "" \in Clients /\ StartTimes \subseteq Nat /\ CurTime \in Nat
       /\ MaxRows \in Nat /\ UintBits \in Nat \ {0}

UintMax == 2^UintBits

\* Mutant: the minutes are not reduced modulo 60 (line 202 dropped).
GetUptimeStrNoMinMod(startTime, curTime) ==
    LET upTimeSec == (curTime - startTime) % UintMax
        min == upTimeSec \div 60
    IN <<min \div 60, min, upTimeSec % 60>>

\* getUptimeStr (lines 192-207): <<hr, min, sec>> of curTime - startTime
\* in unsigned arithmetic.
GetUptimeStr(startTime, curTime) ==
    LET upTimeSec == (curTime - startTime) % UintMax
        min == upTimeSec \div 60
    IN <<min \div 60, min % 60, upTimeSec % 60>>

Row == [server : Servers, client : Clients, start : StartTimes]

VARIABLES
    pc,         \* "main", "print" (in printProcStat), "after", "exit"
    st,         \* the status rcProcStat returned
    got,        \* procStatOut # NULL
    rows,       \* procStatOut, one record per row
    columnsOk,  \* every getSqlResultByInx of lines 99-147 succeeds
    i,          \* the loop index of line 150
    prev,       \* prevServerAddr ("" for NULL)
    out,        \* what has been printed: header and connection lines
    conn,       \* the rcComm_t: "none", "open", "closed" (rcDisconnect)
    exitCode    \* main's exit status once pc = "exit"

vars == <<pc, st, got, rows, columnsOk, i, prev, out, conn, exitCode>>

Header(s) == [kind |-> "server", addr |-> s]
Line(r) == [kind |-> "conn", row |-> r, up |-> GetUptimeStr(rows[r].start, CurTime)]

Init ==
    /\ pc = "main" /\ st = 0 /\ got = FALSE /\ rows = <<>> /\ columnsOk = TRUE
    /\ i = 1 /\ prev = "" /\ out = <<>> /\ conn = "none" /\ exitCode = 0

\* main up to rcProcStat (lines 32-66): a bad option or getRodsEnv failure
\* exits 1, -h exits 0, rcConnect failing exits 2, clientLogin failing
\* disconnects and exits 7 (no login for the public user).
Startup ==
    /\ pc = "main"
    /\ \/ /\ exitCode' \in {0, 1, 2} /\ pc' = "exit" /\ UNCHANGED conn
       \/ /\ exitCode' = 7 /\ pc' = "exit" /\ conn' = "closed"
       \/ /\ pc' = "stat" /\ conn' = "open" /\ UNCHANGED exitCode
    /\ UNCHANGED <<st, got, rows, columnsOk, i, prev, out>>

\* Mutant: a failed rcProcStat skips the rows it did return.
ProcStatFailStops ==
    /\ pc = "stat"
    /\ st' \in {0, -1} /\ got' \in BOOLEAN
    /\ rows' \in IF got' THEN UNION {[1..n -> Row] : n \in 0..MaxRows} ELSE {<<>>}
    /\ columnsOk' \in IF got' THEN BOOLEAN ELSE {TRUE}
    /\ pc' = IF got' /\ st' = 0 THEN "print" ELSE "after"
    /\ UNCHANGED <<i, prev, out, conn, exitCode>>

\* rcProcStat and the test of line 70: the rows it returned (possibly none,
\* possibly with a status < 0 when some server failed) are printed.
ProcStat ==
    /\ pc = "stat"
    /\ st' \in {0, -1} /\ got' \in BOOLEAN
    /\ rows' \in IF got' THEN UNION {[1..n -> Row] : n \in 0..MaxRows} ELSE {<<>>}
    /\ columnsOk' \in IF got' THEN BOOLEAN ELSE {TRUE}
    /\ pc' = IF got' THEN "print" ELSE "after"
    /\ UNCHANGED <<i, prev, out, conn, exitCode>>

\* Mutant: a row without a client is skipped before the server check.
PrintRowSkipFirst ==
    /\ pc = "print" /\ columnsOk /\ i <= Len(rows)
    /\ LET r == rows[i]
           hdr == IF prev = "" \/ prev # r.server THEN <<Header(r.server)>> ELSE <<>>
       IN IF r.client = "" THEN UNCHANGED <<prev, out>>
          ELSE /\ prev' = r.server
               /\ out' = out \o hdr \o <<Line(i)>>
    /\ i' = i + 1
    /\ UNCHANGED <<pc, st, got, rows, columnsOk, conn, exitCode>>

\* Mutant: prevServerAddr is set from the client name column.
PrintRowPrevFromClient ==
    /\ pc = "print" /\ columnsOk /\ i <= Len(rows)
    /\ LET r == rows[i]
           hdr == IF prev = "" \/ prev # r.server THEN <<Header(r.server)>> ELSE <<>>
       IN /\ prev' = r.client
          /\ out' = out \o hdr \o (IF r.client = "" THEN <<>> ELSE <<Line(i)>>)
    /\ i' = i + 1
    /\ UNCHANGED <<pc, st, got, rows, columnsOk, conn, exitCode>>

\* One iteration of lines 150-187 for row i.
PrintRow ==
    /\ pc = "print" /\ columnsOk /\ i <= Len(rows)
    /\ LET r == rows[i]
           hdr == IF prev = "" \/ prev # r.server THEN <<Header(r.server)>> ELSE <<>>
       IN /\ prev' = r.server
          /\ out' = out \o hdr \o (IF r.client = "" THEN <<>> ELSE <<Line(i)>>)
    /\ i' = i + 1
    /\ UNCHANGED <<pc, st, got, rows, columnsOk, conn, exitCode>>

\* return 0 after the last row (line 188), or UNMATCHED_KEY_OR_INDEX when
\* a result column is missing (lines 99-147), printing nothing; main
\* ignores the value and frees procStatOut (line 72).
Return ==
    /\ pc = "print" /\ (~columnsOk \/ i > Len(rows))
    /\ pc' = "after"
    /\ UNCHANGED <<st, got, rows, columnsOk, i, prev, out, conn, exitCode>>

\* Lines 75-83: exit 3 when rcProcStat failed (without rcDisconnect), else
\* rcDisconnect and exit 0.
Finish ==
    /\ pc = "after" /\ pc' = "exit"
    /\ IF st < 0 THEN exitCode' = 3 /\ UNCHANGED conn
                  ELSE exitCode' = 0 /\ conn' = "closed"
    /\ UNCHANGED <<st, got, rows, columnsOk, i, prev, out>>

Next == Startup \/ ProcStat \/ PrintRow \/ Return \/ Finish

Spec == Init /\ [][Next]_vars

-----------------------------------------------------------------------------

TypeOK ==
    /\ rows \in Seq(Row) /\ Len(rows) <= MaxRows
    /\ columnsOk \in BOOLEAN /\ i \in 1..(MaxRows + 1)
    /\ prev \in Servers \cup {""} /\ pc \in {"main", "stat", "print", "after", "exit"}
    /\ st \in {0, -1} /\ got \in BOOLEAN
    /\ conn \in {"none", "open", "closed"} /\ exitCode \in {0, 1, 2, 3, 7}

\* The usage text (line 271) promises "wall clock time of the connection":
\* each uptime printed is curTime - startTime split into hours, minutes
\* (0..59) and seconds (0..59).
UptimeIsElapsedTime ==
    \A k \in 1..Len(out) : out[k].kind = "conn" =>
        LET u == out[k].up
        IN /\ u[2] < 60 /\ u[3] < 60
           /\ u[1] * 3600 + u[2] * 60 + u[3] = CurTime - rows[out[k].row].start

\* The rows examined so far are listed faithfully: every server of those
\* rows gets a "Server:" header even when it has no connection (line 174),
\* every row with a client gets one line, in row order, and the nearest
\* header above a connection line names that row's server.
ListingFaithful ==
    LET hdrs == {out[k].addr : k \in {k \in 1..Len(out) : out[k].kind = "server"}}
        conns == SelectSeq(out, LAMBDA e : e.kind = "conn")
        shown == SelectSeq([k \in 1..(i - 1) |-> k], LAMBDA k : rows[k].client # "")
    IN /\ hdrs = {rows[k].server : k \in 1..(i - 1)}
       /\ [k \in 1..Len(conns) |-> conns[k].row] = shown
       /\ \A k \in 1..Len(out) : out[k].kind = "conn" =>
             \E h \in 1..(k - 1) :
                /\ out[h] = Header(rows[out[k].row].server)
                /\ \A g \in (h + 1)..(k - 1) : out[g].kind = "conn"


\* rcProcStat reports a failure when "at least one of the server failed"
\* (line 77) and still returns the agents of the others.  Whatever the
\* exit status, when ips exits after getting rows with all their columns,
\* it has listed every connection among them.
ListingComplete ==
    (pc = "exit" /\ got /\ columnsOk)
        => Len(SelectSeq(out, LAMBDA e : e.kind = "conn"))
           = Len(SelectSeq(rows, LAMBDA r : r.client # ""))

=============================================================================
