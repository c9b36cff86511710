----------------------------- MODULE StateReducer -----------------------------
(***************************************************************************)
(* StateReducer of 018.check_state: push() turns a stream of states into a *)
(* steadier one.  0 is idle, 1..4 are business states, 6 and above pass    *)
(* through; 5 is put out when enough business states fall into a window.   *)
(***************************************************************************)
EXTENDS Integers, Sequences, FiniteSets

CONSTANTS Inputs,    \* states that are pushed, 5 not among them
          Window,    \* confirm_window_
          Threshold, \* business_threshold_
          MaxTime,   \* bound: the clock
          MaxFrames  \* bound: calls of push()

Business == 1..4
Nothing  == -1

VARIABLES now,                  \* the clock, when push() was last called
          window_start,
          business_count,
          last_business_state,
          output,               \* what push() returned
          frames                \* history: all frames, with their time and output

vars == <<now, window_start, business_count, last_business_state, output, frames>>

Init ==
    /\ now = 0
    /\ window_start = Nothing
    /\ business_count = 0
    /\ last_business_state = Nothing
    /\ output = 0
    /\ frames = <<>>

IsExpired(t) == window_start # Nothing /\ t - window_start >= Window

FoldPending == IF last_business_state = Nothing THEN 0 ELSE last_business_state

\* Fault: the count survives.
ClearPending_KeepsCount ==
    /\ window_start' = Nothing
    /\ last_business_state' = Nothing
    /\ UNCHANGED business_count

\* Fault: the last business state survives.
ClearPending_KeepsLast ==
    /\ window_start' = Nothing
    /\ business_count' = 0
    /\ UNCHANGED last_business_state

ClearPending ==
    /\ window_start' = Nothing
    /\ business_count' = 0
    /\ last_business_state' = Nothing

Start(t)     == IF window_start = Nothing THEN t ELSE window_start
Count(state) == business_count + (IF state \in Business THEN 1 ELSE 0)

PassThrough(state) ==
    /\ state >= 6
    /\ ClearPending
    /\ output' = state

Expire(state, t) ==
    /\ state < 6
    /\ IsExpired(t)
    /\ ClearPending
    /\ output' = IF state # 0 THEN state ELSE FoldPending

\* The frame joins the pending window, or begins one, and may confirm it.
AppendPending(state, t) ==
    /\ state < 6
    /\ ~IsExpired(t)
    /\ IF Count(state) >= Threshold
       THEN ClearPending /\ output' = 5
       ELSE /\ window_start' = Start(t)
            /\ business_count' = Count(state)
            /\ last_business_state' = IF state \in Business THEN state
                                                            ELSE last_business_state
            /\ output' = 0

Push(state, t) ==
    /\ PassThrough(state) \/ Expire(state, t) \/ AppendPending(state, t)
    /\ now' = t
    /\ frames' = Append(frames, [state |-> state, time |-> t, out |-> output'])

Next ==
    /\ Len(frames) < MaxFrames
    /\ \E state \in Inputs, t \in now..MaxTime : Push(state, t)

-----------------------------------------------------------------------------
(* Correctness                                                             *)

\* Neither 5 nor a pass-through state cuts the frames i..k before k.
Together(i, k) ==
    /\ \A j \in i..k : frames[j].state < 6
    /\ \A j \in i..(k - 1) : frames[j].out = 0

BusinessIn(i, k) == {j \in i..k : frames[j].state \in Business}

\* push() returns 5 for exactly Threshold business states that fall into one
\* window, and a business state counts for one 5 only.
FiveConfirmed ==
    \A k \in DOMAIN frames : frames[k].out = 5 =>
      \E i \in 1..k : /\ Together(i, k)
                      /\ frames[k].time - frames[i].time < Window
                      /\ Cardinality(BusinessIn(i, k)) = Threshold

\* A business state that is put out for an idle frame is the last one pushed,
\* and was not put out, confirmed or cut off before.
ReportedOnce ==
    \A k \in DOMAIN frames :
      (frames[k].state = 0 /\ frames[k].out \in Business) =>
        \E i \in 1..(k - 1) : /\ Together(i, k)
                              /\ frames[i].state = frames[k].out
                              /\ BusinessIn(i, k) = {i}

=============================================================================
