--------------------------- MODULE ErrorReporting ---------------------------
(***************************************************************************)
(* 005.error_reporting: errors are reported to the installed handler.  A   *)
(* DispatchHandler passes them on to the handler of their module, which    *)
(* registers itself before main().  The program is one thread, whose       *)
(* statements are the elements of Program.  The handler's place, set() and *)
(* reset(), belongs to the library: a set() or a reset() after finalize()  *)
(* has no effect or aborts, as its hooks are defined.                      *)
(***************************************************************************)
EXTENDS Threads, Sequences, Integers

\* toModule() of the codes of network_module and storage_module.
ToModule == [Timeout |-> "network", ConnectionRefused |-> "network",
             InvalidAddress |-> "network", OutOfBuffer |-> "network",
             DiskFull |-> "storage", PermissionDenied |-> "storage"]

Runtime(code)      == <<"report", "RUNTIME_ERROR", code>>
Fatal(kind, code)  == <<"report", kind, code>>
ReportIf(b, r)     == <<"if", b, r>>
Begin(d)           == <<"begin", d>>

-----------------------------------------------------------------------------
(* The statements of the static initialization, of the demos and of main() *)

\* The module, and whether it has a handler of violations of its own.
NetworkReg == <<"register", "network", TRUE>>
StorageReg == <<"register", "storage", FALSE>>

StaticInitialization == <<NetworkReg, StorageReg>>

DemoReport == <<Begin(1), Runtime("Timeout"), Runtime("ConnectionRefused"), Runtime("InvalidAddress")>>

DemoReportIf == <<Begin(2), ReportIf(90 > 100, Runtime("OutOfBuffer")),
                  ReportIf(101 > 100, Runtime("OutOfBuffer"))>>

DemoCustomHandler ==
    <<Begin(3), <<"set", "recording">>, Runtime("Timeout"), Runtime("ConnectionRefused"),
      Runtime("InvalidAddress"), <<"set", "default">> >>

DemoFatal ==
    <<Begin(4), <<"set", "throwing">>, Fatal("FATAL", "OutOfBuffer"),
      Fatal("ASSERT_VIOLATION", "InvalidAddress"), Fatal("ENFORCE_VIOLATION", "Timeout"),
      ReportIf(FALSE, Fatal("FATAL", "Timeout")), <<"set", "default">> >>

DemoLifecycle == <<Begin(5), <<"set", "recording">>, <<"finalize">>, Runtime("Timeout")>>

DemoSelfRegistration ==
    <<Begin(6), Runtime("Timeout"), Runtime("ConnectionRefused"), Runtime("DiskFull"),
      Runtime("PermissionDenied")>>

Program ==
    StaticInitialization \o << <<"set", "default">> >>
      \o DemoReport \o DemoReportIf \o DemoCustomHandler \o DemoFatal \o DemoLifecycle
      \o << <<"set", "default">>, <<"ensureInstalled">> >> \o DemoSelfRegistration

Init ==
    /\ pc = [main |-> "run"]
    /\ mem = [at |-> 1, demo |-> 0, handler |-> "default", finalized |-> FALSE, installed |-> FALSE,
              errorTable |-> {}, violationTable |-> {},
              log |-> [d \in 0..6 |-> <<>>], panics |-> [d \in 0..6 |-> 0]]

-----------------------------------------------------------------------------
(* The library                                                             *)

\* Handler::set(), and reset(), which sets the default handler.
Set(m, h) == IF m.finalized THEN m ELSE [m EXCEPT !.handler = h]

\* A fatal report ends in onPanic() of the installed handler: it throws, it
\* returns, or the program aborts.
Panics(kind)    == kind # "RUNTIME_ERROR"
AbortsOnPanic   == {"default", "dispatch"}

-----------------------------------------------------------------------------
(* DispatchHandler                                                         *)

\* Once only: a function-local static.
EnsureInstalled(m) == IF m.installed THEN m ELSE [Set(m, "dispatch") EXCEPT !.installed = TRUE]

\* ModuleRegistrar()
Register(m, module, onViolation) ==
    EnsureInstalled([m EXCEPT !.errorTable = @ \cup {module},
                              !.violationTable = IF onViolation THEN @ \cup {module} ELSE @])

\* dispatch() and its two callers: who gets the descriptor, and by which callback.
Dispatch(m, callback, module) ==
    IF callback = "violation" /\ module \in m.violationTable THEN <<module, "violation">>
    ELSE IF module \in m.errorTable THEN <<module, "error">>
    ELSE <<"nobody", callback>>

-----------------------------------------------------------------------------
(* Reports                                                                 *)

Callback(kind) == IF kind \in {"ASSERT_VIOLATION", "ENFORCE_VIOLATION"} THEN "violation" ELSE "error"

Report(m, kind, code) ==
    LET to == IF m.handler = "dispatch" THEN Dispatch(m, Callback(kind), ToModule[code])
                                        ELSE <<m.handler, Callback(kind)>>
    IN  [m EXCEPT !.log[m.demo] = Append(@, Append(to, code)),
                  !.panics[m.demo] = IF Panics(kind) THEN @ + 1 ELSE @]

\* Fault: the condition of IOX_REPORT_IF and IOX_REPORT_FATAL_IF is inverted.
Taken_Inverted(s) == IF s[1] # "if" THEN s ELSE IF s[2] THEN <<"skip">> ELSE s[3]

\* The report that a conditional one makes, if any.
Taken(s) == IF s[1] # "if" THEN s ELSE IF s[2] THEN s[3] ELSE <<"skip">>

Execute(m, s) ==
    CASE s[1] = "begin"           -> [m EXCEPT !.demo = s[2]]
      [] s[1] = "register"        -> Register(m, s[2], s[3])
      [] s[1] = "ensureInstalled" -> EnsureInstalled(m)
      [] s[1] = "set"             -> Set(m, s[2])
      [] s[1] = "finalize"        -> [m EXCEPT !.finalized = TRUE]
      [] s[1] = "report"          -> Report(m, s[2], s[3])
      [] s[1] = "skip"            -> m

Statement == Taken(Program[mem.at])

\* One statement; main() returns after the last one.
Run ==
    /\ mem.at <= Len(Program)
    /\ IF Statement[1] = "report" /\ Panics(Statement[2]) /\ mem.handler \in AbortsOnPanic
       THEN Step("main", "run", "aborted")
       ELSE Step("main", "run", IF mem.at = Len(Program) THEN "exited" ELSE "run")
    /\ mem' = [Execute(mem, Statement) EXCEPT !.at = @ + 1]

\* The hook of the library aborts instead.
Abort ==
    /\ mem.at <= Len(Program)
    /\ mem.finalized /\ Statement[1] = "set"
    /\ Step("main", "run", "aborted")
    /\ UNCHANGED mem

Next == Run \/ Abort

Spec == Init /\ [][Next]_vars /\ WF_vars(Next)

-----------------------------------------------------------------------------
(* Correctness                                                             *)

\* What the first five demos announce: who is told, how, and of what.
Announced ==
    << << <<"default", "error", "Timeout">>, <<"default", "error", "ConnectionRefused">>,
          <<"default", "error", "InvalidAddress">> >>,
       << <<"default", "error", "OutOfBuffer">> >>,
       << <<"recording", "error", "Timeout">>, <<"recording", "error", "ConnectionRefused">>,
          <<"recording", "error", "InvalidAddress">> >>,
       << <<"throwing", "error", "OutOfBuffer">>, <<"throwing", "violation", "InvalidAddress">>,
          <<"throwing", "violation", "Timeout">> >>,
       << <<"recording", "error", "Timeout">> >> >>

\* The handlers that the modules install before main(), and those of earlier
\* demos, do not get in the way: when a demo is over, exactly the reports it
\* announces went to the handler it announces, only demo 4 panicked, once per
\* fatal report, and no panic aborted the program.
DemosReportAsAnnounced ==
    /\ mem.demo = 6 \/ Ended("main") => \A d \in 1..5 : mem.log[d] = Announced[d]
    /\ \A d \in 1..5 : Len(mem.log[d]) <= Len(Announced[d])
    /\ \A d \in 0..6 : mem.panics[d] # 0 => d = 4 /\ mem.panics[d] <= Len(mem.log[d])
    /\ pc["main"] = "aborted" => mem.finalized

\* Demo 6 has ended with every error at the handler of its own module.
Demo6Routed ==
    /\ Ended("main")
    /\ Len(mem.log[6]) = 4
    /\ \A i \in 1..Len(mem.log[6]) : mem.log[6][i][1] = ToModule[mem.log[6][i][3]]
=============================================================================
