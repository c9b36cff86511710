--------------------------- MODULE TemplatePolicy ---------------------------
(***************************************************************************)
(* 014.template_policy: the sorter that takes its comparison as a policy,  *)
(* and the containers that take their lock, their log and their validation *)
(* as policies: Repository names all three, PluginHost takes any of them   *)
(* in any order and looks each one up by its tag.  A behaviour is a sort   *)
(* of one vector, or some calls of add() on one container.                 *)
(***************************************************************************)
EXTENDS Threads, Sequences, Integers, FiniteSetsExt

CONSTANTS MaxLen,   \* vectors of at most this many elements are sorted
          Elements, \* the elements of those vectors
          Values,   \* what add() is called with
          Calls     \* calls of add()

Comparisons == {"AscendingCompare", "DescendingCompare"}

Compare(policy, a, b) == IF policy = "AscendingCompare" THEN a < b ELSE a > b

-----------------------------------------------------------------------------
(* Policies of the containers                                              *)

Tag == [SpinLock |-> "LockTag", ColorLog |-> "LogTag", RangeValidate |-> "ValidateTag"]

\* Fault: the policy is looked for at the head of the pack only.
FindPolicy_Head(tag, default, policies) ==
    IF policies # <<>> /\ Tag[policies[1]] = tag THEN policies[1] ELSE default

\* FindPolicy_t: the first policy of the pack with that tag, or the default.
FindPolicy(tag, default, policies) ==
    LET found == {k \in DOMAIN policies : Tag[policies[k]] = tag}
    IN  IF found = {} THEN default ELSE policies[Min(found)]

\* The packs with no policy twice.
Packs == {p \in UNION {[1..n -> DOMAIN Tag] : n \in 0..3} :
            \A i, k \in DOMAIN p : p[i] = p[k] => i = k}

PluginHost(policies) ==
    [lock     |-> FindPolicy("LockTag", "DefaultLock", policies),
     log      |-> FindPolicy("LogTag", "DefaultLog", policies),
     validate |-> FindPolicy("ValidateTag", "DefaultValidate", policies)]

\* SafeVerboseRepo, FastSilentRepo and SafeStrictRepo
Repositories ==
    {[lock |-> "MutexLock", log |-> "StdoutLog", validate |-> "StrictValidation"],
     [lock |-> "NoLock",    log |-> "SilentLog", validate |-> "NoValidation"],
     [lock |-> "MutexLock", log |-> "StdoutLog", validate |-> "NoValidation"]}

Locks(policy) == policy \in {"MutexLock", "SpinLock"}
Logs(policy)  == policy \in {"StdoutLog", "ColorLog"}

Validate(policy, value) ==
    CASE policy = "StrictValidation" -> value > 0 /\ value < 1000
      [] policy = "RangeValidate"    -> value >= 0 /\ value <= 100
      [] OTHER                       -> TRUE

-----------------------------------------------------------------------------
SortState(policy, data) ==
    [compare |-> policy, input |-> data, data |-> data, i |-> 1, j |-> 2]

\* A host starts empty; asked is the set of policies it was given.
HostState(host, asked) ==
    [host |-> host, asked |-> asked, data |-> <<>>, called |-> <<>>, held |-> FALSE, unsafe |-> FALSE,
     logged |-> 0]

Init ==
    \/ \E policy \in Comparisons, n \in 0..MaxLen : \E data \in [1..n -> Elements] :
         pc = [main |-> "compare"] /\ mem = SortState(policy, data)
    \/ \E p \in Packs :
         pc = [main |-> "add"] /\ mem = HostState(PluginHost(p), {p[k] : k \in DOMAIN p})
    \/ \E r \in Repositories :
         pc = [main |-> "add"] /\ mem = HostState(r, {r.lock, r.log, r.validate})

-----------------------------------------------------------------------------
(* sort_and_print()                                                        *)

\* Fault: the inner loop starts two after i.
NextI_Skips == mem' = [mem EXCEPT !.i = @ + 1, !.j = mem.i + 3]

NextI == mem' = [mem EXCEPT !.i = @ + 1, !.j = mem.i + 2]

\* One test of a loop and the body it admits.
Sort ==
    /\ pc["main"] = "compare"
    /\ LET d == mem.data  i == mem.i  j == mem.j
           swap == [d EXCEPT ![i] = d[j], ![j] = d[i]]
       IN
        \/ /\ i <= Len(d) /\ j <= Len(d)
           /\ Step("main", "compare", "compare")
           /\ mem' = [mem EXCEPT !.data = IF Compare(mem.compare, d[j], d[i]) THEN swap ELSE d,
                                 !.j = @ + 1]
        \/ i <= Len(d) /\ j > Len(d) /\ Step("main", "compare", "compare") /\ NextI
        \/ i > Len(d) /\ Step("main", "compare", "exited") /\ UNCHANGED mem

-----------------------------------------------------------------------------
(* add()                                                                   *)

\* A call, refused by the validation with a line of log; the demos end after
\* some calls.
Add ==
    \/ \E v \in Values :
         /\ pc["main"] = "add" /\ Len(mem.called) < Calls
         /\ Step("main", "add", IF Validate(mem.host.validate, v) THEN "lock" ELSE "log")
         /\ mem' = [mem EXCEPT !.called = Append(@, v)]
    \/ Step("main", "add", "exited") /\ UNCHANGED mem

Lock == Step("main", "lock", "push") /\ mem' = [mem EXCEPT !.held = Locks(mem.host.lock)]

PushBack ==
    /\ Step("main", "push", "unlock")
    /\ mem' = [mem EXCEPT !.data = Append(@, mem.called[Len(mem.called)]),
                          !.unsafe = @ \/ (Locks(mem.host.lock) /\ ~mem.held)]

Unlock == Step("main", "unlock", "log") /\ mem' = [mem EXCEPT !.held = FALSE]

LogLine == Step("main", "log", "add") /\ mem' = [mem EXCEPT !.logged = IF Logs(mem.host.log) THEN @ + 1 ELSE @]

Next == Sort \/ Add \/ Lock \/ PushBack \/ Unlock \/ LogLine

Spec == Init /\ [][Next]_vars /\ WF_vars(Next)

-----------------------------------------------------------------------------
(* Correctness                                                             *)

\* How often x is in s.
Occurrences(s, x) == Cardinality({k \in DOMAIN s : s[k] = x})

\* The sorter ends with the elements it was given in the order of the
\* comparison; before that, the elements it has placed are final: nothing
\* behind them comes before them.
Sorts ==
    "compare" \in DOMAIN mem =>
      /\ \A x \in Elements : Occurrences(mem.data, x) = Occurrences(mem.input, x)
      /\ \A a \in 1..(mem.i - 1), b \in DOMAIN mem.data :
           a < b => ~Compare(mem.compare, mem.data[b], mem.data[a])
      /\ Ended("main") => mem.i > Len(mem.data)

\* A container holds the accepted values in the order of the calls, whatever
\* the order in which its policies were named; a host with a lock changes its
\* data under it and returns with it free; a host that logs, logs each call.
HostsAdd ==
    "host" \in DOMAIN mem =>
      LET Accepted(v) == /\ "RangeValidate" \in mem.asked => v \in 0..100
                         /\ "StrictValidation" \in mem.asked => v \in 1..999
          finished == pc["main"] \in {"add", "exited"}
      IN  /\ ~mem.unsafe
          /\ finished => /\ mem.data = SelectSeq(mem.called, Accepted)
                         /\ ~mem.held
                         /\ mem.logged = IF mem.asked \cap {"ColorLog", "StdoutLog"} = {} THEN 0 ELSE Len(mem.called)

\* Every sort and every sequence of calls gets here.
Finished == Ended("main")
=============================================================================
