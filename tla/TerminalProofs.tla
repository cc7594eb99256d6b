--------------------------- MODULE TerminalProofs ---------------------------
(***************************************************************************)
(* Theorems about Terminal, for every set of characters and every size of  *)
(* the buffers, and without a bound on what the user types.                *)
(***************************************************************************)
EXTENDS Terminal, SequenceTheorems, TLAPS

USE TerminalAssumption

Text == Seq(Char \ {CR, LF, BS})

(* A line that can still ask the input to end.                             *)
Silent(s) == ~Occurs(EOT, s) /\ ~Occurs(ETX, s)

(* A buffer has room while its thread reads, and is empty between lines.   *)
Room ==
  /\ \A t \in Reader : pc[t] \in Reading => Len(line[t]) < LineSize
  /\ pc["guard"] \notin Reading \cup {"line"} => line["guard"] = <<>>

(* The shell waits while an rgen runs, an rgen while its guard may use the *)
(* flags; a guard that has cleared *generate has ended.                    *)
Scope ==
  /\ pc["shell"] # "wait" => pc["rgen"] \in {"none", "ended"}
  /\ GuardInFrame
  /\ pc["rgen"] \notin {"none", "start", "ended"} /\ ~generate => pc["guard"] = "ended"
  /\ pc["rgen"] = "check" /\ generate => ~isGenerating

(* At most one EOT is in the queue.  rgen finds it empty when it starts    *)
(* and until it writes its own; a shell that finds an EOT reads it first.  *)
OneEot ==
  /\ Len(queue) <= 1
  /\ pc["rgen"] \in {"start", "test", "write", "check", "push"} => queue = <<>>
  /\ pc["shell"] = "read" /\ queue # <<>> => line["shell"] = <<>>
  /\ pc["shell"] \in ShellLabel \ {"prompt", "read", "wait", "ended"} => queue = <<>>

(* Before the user has ended its input, the guard reads until it has taken *)
(* the EOT that rgen writes.                                               *)
GuardListens ==
  /\ pc["rgen"] \in {"test", "write", "check", "push"} /\ ~heard =>
       pc["guard"] \in Reading \cup {"line"} /\ Silent(line["guard"])
  /\ pc["rgen"] \in {"cancel", "join"} /\ ~heard /\ queue # <<>> =>
       pc["guard"] \in Reading \cup {"line"} /\ Silent(line["guard"])
  /\ pc["rgen"] \in {"none", "ended"} /\ queue # <<>> => heard

IInv == TypeOK /\ Room /\ Scope /\ OneEot /\ GuardListens

-----------------------------------------------------------------------------
(* What Take does to the buffer and to the thread: the line stays within   *)
(* the buffer, EOT is kept and ends it, and other characters add neither   *)
(* EOT nor ETX.                                                            *)
LEMMA TakeFacts ==
  ASSUME TypeOK, NEW t \in Reader, NEW c \in Char, Take(t, c),
         Len(line[t]) < LineSize
  PROVE  /\ line' \in [Reader -> Text]
         /\ \A u \in Reader : Len(line'[u]) <= LineSize
         /\ \A u \in Reader \ {t} : line'[u] = line[u]
         /\ pc' = [pc EXCEPT ![t] = pc'[t]]
         /\ pc'[t] \in {"read", "line"}
         /\ pc'[t] = "read" => Len(line'[t]) < LineSize
         /\ c = EOT => pc'[t] = "line"
         /\ c \notin {EOT, ETX} /\ Silent(line[t]) => Silent(line'[t])
<1> DEFINE new == Edited(line[t], c)
<1>1. line[t] \in Text BY DEF TypeOK, Text
<1>2. /\ line' = [line EXCEPT ![t] = new]
      /\ pc' = [pc EXCEPT ![t] = IF c \in {CR, EOT} \/ Len(line'[t]) = LineSize
                                 THEN "line" ELSE "read"]
  BY DEF Take, Goto
<1>3. new \in Text /\ Len(new) <= Len(line[t]) + 1
      /\ (c \notin {EOT, ETX} /\ Silent(line[t]) => Silent(new))
  <2>1. CASE c = BS /\ line[t] # <<>>
    <3>1. new = SubSeq(line[t], 1, Len(line[t]) - 1) BY <2>1 DEF Edited
    <3>2. Len(line[t]) \in Nat /\ Len(line[t]) > 0 BY <1>1, <2>1 DEF Text
    <3>3. \A i \in 1 .. Len(line[t]) - 1 : line[t][i] \in Char \ {CR, LF, BS}
      BY <1>1, <3>2 DEF Text
    <3>4. /\ new \in Text
          /\ Len(new) = IF 1 <= Len(line[t]) - 1 THEN (Len(line[t]) - 1) - 1 + 1 ELSE 0
          /\ \A i \in 1 .. (Len(line[t]) - 1) - 1 + 1 : new[i] = line[t][1 + i - 1]
      BY <3>1, <3>2, <3>3, SubSeqProperties DEF Text
    <3>5. \A i \in DOMAIN new : i \in DOMAIN line[t] /\ new[i] = line[t][i]
      BY <3>2, <3>4, <1>1 DEF Text
    <3>6. Silent(line[t]) => Silent(new)
      BY <3>5 DEF Silent, Occurs
    <3> QED BY <3>2, <3>4, <3>6
  <2>2. CASE c \in {LF, CR} \/ (c = BS /\ line[t] = <<>>)
    <3>1. new = line[t] BY <2>2 DEF Edited
    <3> QED BY <3>1, <1>1 DEF Text
  <2>3. CASE c \notin {LF, CR, BS}
    <3>1. new = Append(line[t], c) BY <2>3 DEF Edited
    <3>2. new \in Text /\ Len(new) = Len(line[t]) + 1
      BY <3>1, <1>1, <2>3 DEF Text
    <3>3. \A i \in DOMAIN new : new[i] = c \/ (i \in DOMAIN line[t] /\ new[i] = line[t][i])
      BY <3>1, <1>1, <2>3 DEF Text
    <3>4. c \notin {EOT, ETX} /\ Silent(line[t]) => Silent(new)
      BY <3>3 DEF Silent, Occurs
    <3> QED BY <3>2, <3>4, <1>1 DEF Text
  <2> QED BY <2>1, <2>2, <2>3
<1> HIDE DEF new
<1>4. line' \in [Reader -> Text] /\ line'[t] = new
      /\ \A u \in Reader \ {t} : line'[u] = line[u]
  BY <1>2, <1>3 DEF TypeOK, Text
<1>5. \A u \in Reader : Len(line'[u]) <= LineSize
  <2> TAKE u \in Reader
  <2>1. CASE u = t
    BY <2>1, <1>1, <1>3, <1>4 DEF Text
  <2>2. CASE u # t
    BY <2>2, <1>4 DEF TypeOK
  <2> QED BY <2>1, <2>2
<1>6. pc'[t] = IF c \in {CR, EOT} \/ Len(line'[t]) = LineSize THEN "line" ELSE "read"
  BY <1>2 DEF TypeOK, Reader, Thread
<1>7. Len(line'[t]) \in Nat
  BY <1>4 DEF Text
<1>8. pc' = [pc EXCEPT ![t] = pc'[t]]
  BY <1>2, <1>6
<1>9. pc'[t] \in {"read", "line"} /\ (c = EOT => pc'[t] = "line")
      /\ (pc'[t] = "read" => Len(line'[t]) < LineSize)
  BY <1>5, <1>6, <1>7
<1> QED BY <1>3, <1>4, <1>5, <1>8, <1>9

(* The queue holds nothing but EOT.                                        *)
LEMMA QueueFacts ==
  ASSUME TypeOK, queue # <<>>
  PROVE  /\ Head(queue) = EOT
         /\ Tail(queue) \in Seq({EOT})
         /\ Len(Tail(queue)) = Len(queue) - 1
         /\ Len(queue) \in Nat \ {0}
BY HeadTailProperties DEF TypeOK

(* The three ways to get a character, for a thread that has room for it:   *)
(* what they share, and where the character comes from.                    *)
Taking(t, c) ==
  /\ pc[t] \in {"read", "pending", "recheck"}
  /\ Take(t, c)
  /\ UNCHANGED <<keys, flags, eotRead, missed>>
  /\ \/ /\ queue # <<>> /\ c = EOT /\ queue' = Tail(queue)
        /\ stdinOpen' \in {TRUE, stdinOpen}
        /\ UNCHANGED <<console, heard>>
     \/ /\ pc[t] = "pending" /\ console # <<>> /\ c \in Key
        /\ console' = Tail(console) /\ stdinOpen' = TRUE
        /\ heard' = (heard \/ (t = "guard" /\ c \in {EOT, ETX}))
        /\ UNCHANGED queue

(* A step inside of Read_Line_From_Console that takes no character.        *)
Moving(t) ==
  /\ pc[t] \in Reading
  /\ \/ pc[t] = "read" /\ queue = <<>> /\ Goto(t, "issue")
     \/ pc[t] = "issue" /\ Goto(t, "pending")
     \/ pc[t] = "failed" /\ Goto(t, "recheck")
     \/ pc[t] = "recheck" /\ queue = <<>> /\ Goto(t, "line")
  /\ stdinOpen' \in BOOLEAN
  /\ UNCHANGED <<console, keys, queue, line, flags, eotRead, history>>

(* Every step of Read_Line_From_Console is one of the two.                 *)
LEMMA ReadLineSteps ==
  ASSUME TypeOK, NEW t \in Reader, ReadLine(t)
  PROVE  Moving(t) \/ \E c \in Char : Taking(t, c)
<1>0. {stdinOpen} \subseteq BOOLEAN BY DEF TypeOK
<1>1. CASE Replay(t)
  <2>1. Head(queue) = EOT BY <1>1, QueueFacts DEF Replay
  <2>2. Taking(t, EOT)
    BY <1>1, <2>1 DEF Replay, Taking, history
  <2> QED BY <2>2 DEF Char
<1>2. CASE Issue(t)
  BY <1>0, <1>2 DEF Issue, Moving, keyboard, Reading
<1>3. CASE Begin(t)
  BY <1>0, <1>3 DEF Begin, Moving, keyboard, Reading
<1>4. CASE Typed(t)
  <2>1. Head(console) \in Key
    BY <1>4, HeadTailProperties DEF Typed, TypeOK
  <2>2. Taking(t, Head(console))
    BY <1>4, <2>1 DEF Typed, Taking
  <2> QED BY <2>1, <2>2 DEF Char
<1>5. CASE Fail(t)
  BY <1>5 DEF Fail, Moving, Reading
<1>6. CASE Recheck(t)
  <2>1. CASE queue # <<>>
    <3>1. Head(queue) = EOT BY <2>1, QueueFacts
    <3>2. Taking(t, EOT)
      BY <1>6, <2>1, <3>1 DEF Recheck, Taking, history
    <3> QED BY <3>2 DEF Char
  <2>2. CASE queue = <<>>
    BY <1>0, <1>6, <2>2 DEF Recheck, Moving, Reading
  <2> QED BY <2>1, <2>2
<1> QED BY <1>1, <1>2, <1>3, <1>4, <1>5, <1>6 DEF ReadLine

-----------------------------------------------------------------------------
(* Type correctness, with the room that the buffers have.                  *)
LEMMA InitIInv == Init => IInv
<1> SUFFICES ASSUME Init PROVE IInv OBVIOUS
<1>1. TypeOK
  <2>1. /\ <<>> \in Seq(Key) /\ <<>> \in Seq({EOT}) /\ <<>> \in Seq(Char \ {CR, LF, BS})
        /\ Len(<<>>) = 0
    OBVIOUS
  <2>2. /\ console \in Seq(Key) /\ Len(console) <= MaxAhead
        /\ queue \in Seq({EOT}) /\ Len(queue) <= MaxQueue
        /\ keys \in 0 .. MaxKeys
    BY <2>1 DEF Init
  <2>3. /\ line \in [Reader -> Seq(Char \ {CR, LF, BS})]
        /\ \A t \in Reader : Len(line[t]) <= LineSize
    BY <2>1 DEF Init
  <2>4. /\ pc \in [Thread -> ShellLabel \cup GuardLabel \cup RgenLabel]
        /\ pc["shell"] \in ShellLabel
        /\ pc["guard"] \in GuardLabel
        /\ pc["rgen"] \in RgenLabel
    BY DEF Init, Thread, Reader, ShellLabel, GuardLabel, RgenLabel, ReaderLabel
  <2>5. {stdinOpen, generate, isGenerating, eotRead, heard, missed} \subseteq BOOLEAN
    BY DEF Init
  <2> QED BY <2>2, <2>3, <2>4, <2>5 DEF TypeOK
<1>2. Room BY DEF Init, Room, Reader, Thread, Reading
<1>3. Scope BY DEF Init, Scope, GuardInFrame, Thread, Reader
<1>4. OneEot BY DEF Init, OneEot, Thread, Reader
<1>5. GuardListens BY DEF Init, GuardListens, Thread, Reader
<1> QED BY <1>1, <1>2, <1>3, <1>4, <1>5 DEF IInv

LEMMA TypeStep == IInv /\ [Next]_vars => TypeOK' /\ Room'
<1> SUFFICES ASSUME IInv, [Next]_vars PROVE TypeOK' /\ Room' OBVIOUS
<1> USE DEF IInv, Reader, Thread, ShellLabel, GuardLabel, RgenLabel, ReaderLabel, Reading
<1>1. ASSUME NEW c \in Key, Press(c) PROVE TypeOK' /\ Room'
  <2>1. Append(console, c) \in Seq(Key) /\ Len(Append(console, c)) = Len(console) + 1
    BY DEF TypeOK
  <2> QED BY <1>1, <2>1 DEF Press, TypeOK, Room, flags, history
<1>2. ASSUME NEW t \in Reader, NEW c \in Char, Taking(t, c) PROVE TypeOK' /\ Room'
  <2>1. Len(line[t]) < LineSize BY <1>2 DEF Taking, Room
  <2>2. /\ line' \in [Reader -> Text]
        /\ \A u \in Reader : Len(line'[u]) <= LineSize
        /\ \A u \in Reader \ {t} : line'[u] = line[u]
        /\ pc' = [pc EXCEPT ![t] = pc'[t]]
        /\ pc'[t] \in {"read", "line"}
        /\ pc'[t] = "read" => Len(line'[t]) < LineSize
    BY <1>2, <2>1, TakeFacts DEF Taking
  <2>3. queue' \in Seq({EOT}) /\ Len(queue') <= MaxQueue
    <3>1. CASE queue # <<>> /\ queue' = Tail(queue)
      BY <3>1, QueueFacts DEF TypeOK
    <3>2. CASE UNCHANGED queue
      BY <3>2 DEF TypeOK
    <3> QED BY <1>2, <3>1, <3>2 DEF Taking
  <2>4. console' \in Seq(Key) /\ Len(console') <= MaxAhead
    <3>1. CASE console # <<>> /\ console' = Tail(console)
      <4>1. Tail(console) \in Seq(Key) /\ Len(Tail(console)) = Len(console) - 1
        BY <3>1, HeadTailProperties DEF TypeOK
      <4> QED BY <3>1, <4>1 DEF TypeOK
    <3>2. CASE UNCHANGED console
      BY <3>2 DEF TypeOK
    <3> QED BY <1>2, <3>1, <3>2 DEF Taking
  <2>5. TypeOK'
    <3>1. {stdinOpen, generate, isGenerating, eotRead, heard, missed}' \subseteq BOOLEAN
      BY <1>2 DEF Taking, TypeOK, flags
    <3>2. pc' \in [Thread -> ShellLabel \cup GuardLabel \cup RgenLabel]
          /\ pc'["shell"] \in ShellLabel
          /\ pc'["guard"] \in GuardLabel
          /\ pc'["rgen"] \in RgenLabel
      BY <2>2 DEF TypeOK
    <3>3. keys' \in 0 .. MaxKeys BY <1>2 DEF Taking, TypeOK
    <3> QED BY <2>2, <2>3, <2>4, <3>1, <3>2, <3>3 DEF TypeOK, Text
  <2>6. Room'
    BY <1>2, <2>2 DEF Taking, TypeOK, Room
  <2> QED BY <2>5, <2>6
<1>3. ASSUME NEW t \in Reader, Moving(t) PROVE TypeOK' /\ Room'
  BY <1>3 DEF Moving, Goto, TypeOK, Room, flags, history
<1>4. CASE GuardLine
  BY <1>4 DEF GuardLine, Goto, TypeOK, Room, keyboard, flags, history
<1>5. CASE GuardFlag
  BY <1>5 DEF GuardFlag, Goto, TypeOK, Room, keyboard, flags, history
<1>6. CASE GuardStop
  BY <1>6 DEF GuardStop, Goto, TypeOK, Room, keyboard, flags, history
<1>7. CASE RgenStart
  <2>1. /\ pc' \in [Thread -> ShellLabel \cup GuardLabel \cup RgenLabel]
        /\ pc'["shell"] = pc["shell"] /\ pc'["guard"] = "read" /\ pc'["rgen"] = "test"
    BY <1>7 DEF RgenStart, TypeOK
  <2>2. line["guard"] = <<>>
    BY <1>7 DEF RgenStart, Room, Scope, GuardInFrame, TypeOK
  <2>3. TypeOK'
    BY <1>7, <2>1 DEF RgenStart, TypeOK, keyboard
  <2>4. Room'
    BY <1>7, <2>1, <2>2 DEF RgenStart, Room
  <2> QED BY <2>3, <2>4
<1>8. CASE RgenTest
  BY <1>8 DEF RgenTest, Goto, TypeOK, Room, keyboard, flags, history
<1>9. CASE RgenWrite
  BY <1>9 DEF RgenWrite, Goto, TypeOK, Room, keyboard, flags, history
<1>10. CASE RgenCheck
  BY <1>10 DEF RgenCheck, Goto, TypeOK, Room, keyboard, flags, history
<1>11. CASE RgenPush
  <2>1. Len(queue) < MaxQueue => /\ Append(queue, EOT) \in Seq({EOT})
                                 /\ Len(Append(queue, EOT)) <= MaxQueue
    BY DEF TypeOK
  <2>2. queue' \in Seq({EOT}) /\ Len(queue') <= MaxQueue
    BY <1>11, <2>1 DEF RgenPush, TypeOK
  <2>3. \E l \in {"cancel", "join"} : pc' = [pc EXCEPT !["rgen"] = l]
    BY <1>11 DEF RgenPush, Goto
  <2>4. TypeOK'
    BY <1>11, <2>2, <2>3 DEF RgenPush, TypeOK, flags, history
  <2>5. Room'
    BY <1>11, <2>3 DEF RgenPush, TypeOK, Room
  <2> QED BY <2>4, <2>5
<1>12. CASE RgenCancelIo
  BY <1>12 DEF RgenCancelIo, Goto, TypeOK, Room, keyboard, flags, history
<1>13. CASE RgenJoin
  BY <1>13 DEF RgenJoin, Goto, TypeOK, Room, keyboard, flags, history
<1>14. CASE ShellPrompt
  BY <1>14 DEF ShellPrompt, Goto, TypeOK, Room, keyboard, flags, history
<1>15. CASE ShellLine
  BY <1>15 DEF ShellLine, Goto, Again, Occurs, TypeOK, Room, keyboard, flags, history
<1>16. CASE ShellResume
  BY <1>16 DEF ShellResume, Goto, Again, TypeOK, Room, keyboard, flags, history
<1>17. CASE UNCHANGED vars
  BY <1>17 DEF vars, TypeOK, Room, keyboard, flags, history
<1> QED
  BY <1>1, <1>2, <1>3, <1>4, <1>5, <1>6, <1>7, <1>8, <1>9, <1>10, <1>11, <1>12,
     <1>13, <1>14, <1>15, <1>16, <1>17, ReadLineSteps
  DEF Next, ShellStep, GuardStep, RgenStep

(* A character that is read changes the reader's line and place only, and  *)
(* an EOT from the queue, which has no other, completes the line.          *)
LEMMA TakingFacts ==
  ASSUME IInv, NEW t \in Reader, NEW c \in Char, Taking(t, c)
  PROVE  /\ pc[t] \in {"read", "pending", "recheck"}
         /\ pc'[t] \in {"read", "line"}
         /\ \A u \in Thread \ {t} : pc'[u] = pc[u]
         /\ \A u \in Reader \ {t} : line'[u] = line[u]
         /\ \/ queue # <<>> /\ queue' = <<>> /\ pc'[t] = "line" /\ heard' = heard
            \/ /\ pc[t] = "pending" /\ queue' = queue
               /\ \/ heard' = TRUE
                  \/ heard' = heard /\ (t = "guard" => c \notin {EOT, ETX})
         /\ c \notin {EOT, ETX} /\ Silent(line[t]) => Silent(line'[t])
         /\ UNCHANGED <<generate, isGenerating>>
<1>1. Len(line[t]) < LineSize
  BY DEF IInv, Room, Taking, Reading
<1>2. /\ \A u \in Reader \ {t} : line'[u] = line[u]
      /\ pc' = [pc EXCEPT ![t] = pc'[t]]
      /\ pc'[t] \in {"read", "line"}
      /\ c = EOT => pc'[t] = "line"
      /\ c \notin {EOT, ETX} /\ Silent(line[t]) => Silent(line'[t])
  BY <1>1, TakeFacts DEF IInv, Taking
<1>3. \A u \in Thread \ {t} : pc'[u] = pc[u]
  BY <1>2 DEF IInv, TypeOK
<1>4. queue # <<>> => Tail(queue) = <<>>
  <2> SUFFICES ASSUME queue # <<>> PROVE Tail(queue) = <<>> OBVIOUS
  <2>1. /\ Tail(queue) \in Seq({EOT})
        /\ Len(Tail(queue)) = Len(queue) - 1
        /\ Len(queue) \in Nat \ {0}
    BY QueueFacts DEF IInv
  <2>2. Len(queue) <= 1 BY DEF IInv, OneEot
  <2> QED BY <2>1, <2>2
<1>5. {heard} \subseteq BOOLEAN BY DEF IInv, TypeOK
<1>6. UNCHANGED <<generate, isGenerating>> BY DEF Taking, flags
<1>7. pc[t] \in {"read", "pending", "recheck"} BY DEF Taking
<1>8. \/ queue # <<>> /\ queue' = <<>> /\ pc'[t] = "line" /\ heard' = heard
      \/ /\ pc[t] = "pending" /\ queue' = queue
         /\ \/ heard' = TRUE
            \/ heard' = heard /\ (t = "guard" => c \notin {EOT, ETX})
  BY <1>2, <1>4, <1>5 DEF Taking
<1> QED BY <1>2, <1>3, <1>6, <1>7, <1>8

(* The threads that Goto and the steps of rgen leave where they are.       *)
LEMMA GotoFacts ==
  ASSUME TypeOK, NEW t \in Thread, NEW l, Goto(t, l)
  PROVE  pc'[t] = l /\ \A u \in Thread \ {t} : pc'[u] = pc[u]
BY DEF Goto, TypeOK

(* The scopes of rgen's flags and of its guard are preserved.              *)
LEMMA ScopeStep == IInv /\ [Next]_vars => Scope'
<1> SUFFICES ASSUME IInv, [Next]_vars PROVE Scope' OBVIOUS
<1> USE DEF Scope, GuardInFrame
<1>0. TypeOK /\ Scope BY DEF IInv
<1> USE DEF Thread, Reader
<1>1. ASSUME NEW c \in Key, Press(c) PROVE Scope'
  BY <1>0, <1>1 DEF Press, flags
<1>2. ASSUME NEW t \in Reader, NEW c \in Char, Taking(t, c) PROVE Scope'
  BY <1>0, <1>2, TakingFacts
<1>3. ASSUME NEW t \in Reader, Moving(t) PROVE Scope'
  BY <1>0, <1>3, GotoFacts DEF Moving, flags, Reading
<1>4. CASE GuardLine
  BY <1>0, <1>4, GotoFacts DEF GuardLine, flags
<1>5. CASE GuardFlag
  BY <1>0, <1>5, GotoFacts DEF GuardFlag, flags
<1>6. CASE GuardStop
  BY <1>0, <1>6, GotoFacts DEF GuardStop
<1>7. CASE RgenStart
  BY <1>0, <1>7 DEF RgenStart, TypeOK
<1>8. CASE RgenTest
  BY <1>0, <1>8, GotoFacts DEF RgenTest, flags
<1>9. CASE RgenWrite
  BY <1>0, <1>9, GotoFacts DEF RgenWrite
<1>10. CASE RgenCheck
  BY <1>0, <1>10, GotoFacts DEF RgenCheck, flags
<1>11. CASE RgenPush
  BY <1>0, <1>11, GotoFacts DEF RgenPush, flags
<1>12. CASE RgenCancelIo
  BY <1>0, <1>12 DEF RgenCancelIo, flags
<1>13. CASE RgenJoin
  BY <1>0, <1>13, GotoFacts DEF RgenJoin, flags
<1>14. CASE ShellPrompt
  BY <1>0, <1>14, GotoFacts DEF ShellPrompt, flags
<1>15. CASE ShellLine
  BY <1>0, <1>15, GotoFacts DEF ShellLine, Again, flags, TypeOK
<1>16. CASE ShellResume
  BY <1>0, <1>16, GotoFacts DEF ShellResume, Again, flags
<1>17. CASE UNCHANGED vars
  BY <1>0, <1>17 DEF vars, flags
<1> QED
  BY <1>0, <1>1, <1>2, <1>3, <1>4, <1>5, <1>6, <1>7, <1>8, <1>9, <1>10, <1>11, <1>12,
     <1>13, <1>14, <1>15, <1>16, <1>17, ReadLineSteps
  DEF Next, ShellStep, GuardStep, RgenStep

(* The one EOT in the queue is preserved.                                  *)
LEMMA OneEotStep == IInv /\ [Next]_vars => OneEot'
<1> SUFFICES ASSUME IInv, [Next]_vars PROVE OneEot' OBVIOUS
<1> USE DEF OneEot
<1>0. TypeOK /\ OneEot /\ Scope BY DEF IInv
<1> USE DEF Thread, Reader, ShellLabel, ReaderLabel, Reading
<1>1. ASSUME NEW c \in Key, Press(c) PROVE OneEot'
  BY <1>0, <1>1 DEF Press
<1>2. ASSUME NEW t \in Reader, NEW c \in Char, Taking(t, c) PROVE OneEot'
  <2>1. Len(queue') <= 1 /\ (queue = <<>> => queue' = <<>>)
    <3>1. Len(<<>>) = 0 OBVIOUS
    <3>2. queue' \in {<<>>, queue}
      BY <1>2, TakingFacts
    <3> QED BY <1>0, <3>1, <3>2
  <2>2. pc'["rgen"] = pc["rgen"]
    BY <1>2, TakingFacts
  <2>3. CASE t = "shell"
    <3>1. queue' = <<>> /\ pc'["shell"] \in {"read", "line"}
      BY <1>0, <1>2, <2>3, TakingFacts
    <3> QED BY <1>0, <2>1, <2>2, <3>1
  <2>4. CASE t = "guard"
    <3>1. pc'["shell"] = pc["shell"] /\ line'["shell"] = line["shell"]
      BY <1>2, <2>4, TakingFacts
    <3> QED BY <1>0, <2>1, <2>2, <3>1
  <2> QED BY <2>3, <2>4
<1>3. ASSUME NEW t \in Reader, Moving(t) PROVE OneEot'
  BY <1>0, <1>3, GotoFacts DEF Moving
<1>4. CASE GuardLine
  BY <1>0, <1>4, GotoFacts DEF GuardLine, keyboard, TypeOK
<1>5. CASE GuardFlag
  BY <1>0, <1>5, GotoFacts DEF GuardFlag, keyboard
<1>6. CASE GuardStop
  BY <1>0, <1>6, GotoFacts DEF GuardStop, keyboard
<1>7. CASE RgenStart
  BY <1>0, <1>7 DEF RgenStart, TypeOK, keyboard
<1>8. CASE RgenTest
  BY <1>0, <1>8, GotoFacts DEF RgenTest, keyboard
<1>9. CASE RgenWrite
  BY <1>0, <1>9, GotoFacts DEF RgenWrite, keyboard
<1>10. CASE RgenCheck
  BY <1>0, <1>10, GotoFacts DEF RgenCheck, keyboard
<1>11. CASE RgenPush
  <2>1. queue = <<>> /\ pc["shell"] = "wait" /\ pc'["rgen"] \in {"cancel", "join"}
        /\ pc'["shell"] = "wait"
    BY <1>0, <1>11, GotoFacts DEF RgenPush, Scope
  <2>2. Len(queue') <= 1
    <3>1. Len(<<>>) = 0 /\ Len(Append(<<>>, EOT)) = 1
      <4>1. <<>> \in Seq({EOT}) /\ Len(<<>>) = 0 OBVIOUS
      <4>2. Len(Append(<<>>, EOT)) = Len(<<>>) + 1
        BY <4>1, AppendProperties
      <4> QED BY <4>1, <4>2
    <3>2. queue' = <<>> \/ queue' = Append(<<>>, EOT)
      BY <1>11, <2>1 DEF RgenPush
    <3>3. CASE queue' = <<>> BY <3>1, <3>3
    <3>4. CASE queue' = Append(<<>>, EOT)
      <4>1. Len(queue') = 1 BY ONLY <3>1, <3>4, Zenon
      <4> QED BY <4>1
    <3> QED BY <3>2, <3>3, <3>4
  <2> QED BY <2>1, <2>2
<1>12. CASE RgenCancelIo
  BY <1>0, <1>12 DEF RgenCancelIo, keyboard, Scope, TypeOK
<1>13. CASE RgenJoin
  BY <1>0, <1>13, GotoFacts DEF RgenJoin, keyboard
<1>14. CASE ShellPrompt
  BY <1>0, <1>14, GotoFacts DEF ShellPrompt, keyboard, TypeOK
<1>15. CASE ShellLine
  BY <1>0, <1>15, GotoFacts DEF ShellLine, Again, keyboard
<1>16. CASE ShellResume
  BY <1>0, <1>16, GotoFacts DEF ShellResume, Again, keyboard
<1>17. CASE UNCHANGED vars
  BY <1>0, <1>17 DEF vars, keyboard
<1> QED
  BY <1>0, <1>1, <1>2, <1>3, <1>4, <1>5, <1>6, <1>7, <1>8, <1>9, <1>10, <1>11, <1>12,
     <1>13, <1>14, <1>15, <1>16, <1>17, ReadLineSteps
  DEF Next, ShellStep, GuardStep, RgenStep

(* The guard listens until it has the EOT of rgen or one of the user.      *)
LEMMA GuardListensStep == IInv /\ [Next]_vars => GuardListens'
<1> SUFFICES ASSUME IInv, [Next]_vars PROVE GuardListens' OBVIOUS
<1> USE DEF GuardListens
<1>0. TypeOK /\ GuardListens /\ OneEot /\ Scope BY DEF IInv
<1> USE DEF Thread, Reader, Reading
<1>1. ASSUME NEW c \in Key, Press(c) PROVE GuardListens'
  BY <1>0, <1>1 DEF Press, history
<1>2. ASSUME NEW t \in Reader, NEW c \in Char, Taking(t, c) PROVE GuardListens'
  BY <1>0, <1>2, TakingFacts DEF OneEot, Scope
<1>3. ASSUME NEW t \in Reader, Moving(t) PROVE GuardListens'
  BY <1>0, <1>3, GotoFacts DEF Moving, history
<1>4. CASE GuardLine
  <2>1. line'["guard"] = <<>> /\ Silent(<<>>)
    BY <1>0, <1>4 DEF GuardLine, TypeOK, Silent, Occurs
  <2>2. Silent(line["guard"]) => pc'["guard"] = "read"
    BY <1>0, <1>4, GotoFacts DEF GuardLine, Silent
  <2>3. pc'["rgen"] = pc["rgen"] /\ pc["guard"] = "line"
    BY <1>0, <1>4, GotoFacts DEF GuardLine
  <2> QED BY <1>0, <1>4, <2>1, <2>2, <2>3 DEF GuardLine, keyboard, history
<1>5. CASE GuardFlag
  BY <1>0, <1>5, GotoFacts DEF GuardFlag, keyboard, history
<1>6. CASE GuardStop
  BY <1>0, <1>6, GotoFacts DEF GuardStop, keyboard, history
<1>7. CASE RgenStart
  <2>1. line["guard"] = <<>> /\ Silent(<<>>)
    BY <1>0, <1>7 DEF RgenStart, IInv, Room, Scope, GuardInFrame, Silent, Occurs
  <2>2. pc'["rgen"] = "test" /\ pc'["guard"] = "read"
    BY <1>0, <1>7 DEF RgenStart, TypeOK
  <2> QED BY <1>7, <2>1, <2>2 DEF RgenStart
<1>8. CASE RgenTest
  BY <1>0, <1>8, GotoFacts DEF RgenTest, keyboard, history
<1>9. CASE RgenWrite
  BY <1>0, <1>9, GotoFacts DEF RgenWrite, keyboard, history
<1>10. CASE RgenCheck
  BY <1>0, <1>10, GotoFacts DEF RgenCheck, keyboard, history, OneEot
<1>11. CASE RgenPush
  BY <1>0, <1>11, GotoFacts DEF RgenPush, history
<1>12. CASE RgenCancelIo
  BY <1>0, <1>12 DEF RgenCancelIo, keyboard
<1>13. CASE RgenJoin
  BY <1>0, <1>13, GotoFacts DEF RgenJoin, keyboard, history
<1>14. CASE ShellPrompt
  BY <1>0, <1>14, GotoFacts DEF ShellPrompt, keyboard, history, TypeOK
<1>15. CASE ShellLine
  BY <1>0, <1>15, GotoFacts DEF ShellLine, keyboard, history, TypeOK
<1>16. CASE ShellResume
  BY <1>0, <1>16, GotoFacts DEF ShellResume, keyboard, history
<1>17. CASE UNCHANGED vars
  BY <1>0, <1>17 DEF vars, keyboard, history
<1> QED
  BY <1>0, <1>1, <1>2, <1>3, <1>4, <1>5, <1>6, <1>7, <1>8, <1>9, <1>10, <1>11, <1>12,
     <1>13, <1>14, <1>15, <1>16, <1>17, ReadLineSteps
  DEF Next, ShellStep, GuardStep, RgenStep

-----------------------------------------------------------------------------
(* The invariant that is inductive.                                        *)
THEOREM InvariantHolds == Spec => []IInv
<1>1. IInv /\ [Next]_vars => IInv'
  BY TypeStep, ScopeStep, OneEotStep, GuardListensStep DEF IInv
<1> QED BY InitIInv, <1>1, PTL DEF Spec

(* Buffers and queues hold characters and stay within their sizes, however *)
(* much the user types: the full line ends before it passes the buffer.    *)
THEOREM TypeCorrect == Spec => []TypeOK
<1>1. IInv => TypeOK BY DEF IInv
<1> QED BY InvariantHolds, <1>1, PTL

(* rgen returns after its guard has used its flags for the last time.      *)
THEOREM GuardStaysInFrame == Spec => []GuardInFrame
<1>1. IInv => GuardInFrame BY DEF IInv, Scope
<1> QED BY InvariantHolds, <1>1, PTL

(* The shell is given the EOT of rgen only if the user had ended the input *)
(* of that rgen.                                                           *)
THEOREM StrayEotOnlyIfHeard == Spec => []StrayEot
<1>1. IInv => StrayEot
  <2> SUFFICES ASSUME IInv, pc["shell"] \in Reading, queue # <<>> PROVE heard
    BY DEF StrayEot
  <2>1. pc["rgen"] \in {"none", "ended"}
    BY DEF IInv, Scope, Reading
  <2> QED BY <2>1 DEF IInv, GuardListens
<1> QED BY InvariantHolds, <1>1, PTL
=============================================================================
