------------------------------ MODULE LogParser ------------------------------
(***************************************************************************)
(* GetLogs (utils.go), which rebuilds the tree of program calls from the   *)
(* flat log of a transaction, and HandlePumpFunNewToken (pumpfun.go),      *)
(* which looks in that tree for the tokens that PumpFun launches.          *)
(***************************************************************************)
EXTENDS Integers, Sequences, SequencesExt

CONSTANT LogLine  \* what GetLogs can tell of each log message

(* says is the word GetLogs acts on: "invoke" of a program, "log" or       *)
(* "data" for a message of the running program, "success", or "nothing"    *)
(* (a failure, units consumed, "Log truncated").  launch is the token that *)
(* the data decode to as a PumpFunCreation, or "".                         *)
ASSUME LogLineAssumption ==
    \A l \in DOMAIN LogLine :
        /\ {"says", "program", "launch"} \subseteq DOMAIN LogLine[l]
        /\ LogLine[l].says \in {"invoke", "log", "data", "success", "nothing"}

NoCall == [program |-> "", logs |-> <<>>, subLogs |-> <<>>]

Parsing == [details |-> <<>>, current |-> NoCall, stack |-> <<>>]

(* A program is invoked: the running one waits on the stack. *)
Invoke(s, program) ==
    [s EXCEPT !.stack   = IF s.current.program # "" THEN Append(s.stack, s.current) ELSE s.stack,
              !.current = [NoCall EXCEPT !.program = program]]

Log(s, l) == [s EXCEPT !.current.logs = Append(@, l)]

(* Mutant: the caller does not come back. *)
SuccessKeepsCurrent(s) ==
    IF s.stack # <<>>
    THEN [s EXCEPT !.stack = Front(s.stack)]
    ELSE [s EXCEPT !.details = Append(@, s.current), !.current = NoCall]

(* The running program ends: it becomes a part of its caller, or one of    *)
(* the results.                                                            *)
Success(s) ==
    IF s.stack # <<>>
    THEN [s EXCEPT !.stack   = Front(s.stack),
                   !.current = [Last(s.stack) EXCEPT !.subLogs = Append(@, s.current)]]
    ELSE [s EXCEPT !.details = Append(@, s.current), !.current = NoCall]

Read(s, l) ==
    CASE LogLine[l].says = "invoke"  -> Invoke(s, LogLine[l].program)
      [] LogLine[l].says \in {"log", "data"} -> Log(s, l)
      [] LogLine[l].says = "success" -> Success(s)
      [] LogLine[l].says = "nothing" -> s

(* At the end the running program is a result too; the stack is dropped.   *)
GetLogs(logs) ==
    LET s == FoldLeft(Read, Parsing, logs)
    IN  IF s.current.program # "" THEN Append(s.details, s.current) ELSE s.details

(* The messages of a tree, each with the program it is listed under: the   *)
(* order in which checkLogs comes across them.                             *)
RECURSIVE checkLogs(_)
checkLogs(details) ==
    FlattenSeq([d \in 1..Len(details) |->
        [i \in 1..Len(details[d].logs) |->
            [program |-> details[d].program, line |-> details[d].logs[i]]]
          \o checkLogs(details[d].subLogs)])

HandlePumpFunNewToken(details, programId) ==
    LET of  == SelectSeq(checkLogs(details), LAMBDA m : /\ LogLine[m.line].says = "data"
                                                        /\ m.program = programId)
        all == [i \in 1..Len(of) |-> LogLine[of[i].line].launch]
    IN  SelectSeq(all, LAMBDA token : token # "")
=============================================================================
