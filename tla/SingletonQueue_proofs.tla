----------------------- MODULE SingletonQueue_proofs -----------------------
(***************************************************************************)
(* The dispatches of a singleton and the commands they left on the         *)
(* connection, for any number of dispatches: types, of which the number of *)
(* commands in flight is the one that takes an argument.                   *)
(***************************************************************************)
EXTENDS SingletonQueue, FiniteSetTheorems, SequenceTheorems, TLAPS

Command == [by : Dispatches \cup {Abandoned}, cmd : Steps]

Waits == [Dispatches -> Steps \cup {"idle"}]

\* Of the commands cs, when the dispatches wait as in w: a dispatch that waits has
\* one, and it is the one it waits for.
Heeds(cs, w) ==
    /\ \A i \in 1..Len(cs) : cs[i].by # Abandoned => cs[i].cmd = w[cs[i].by]
    /\ \A i, j \in 1..Len(cs) : cs[i].by # Abandoned /\ cs[i].by = cs[j].by => i = j
    /\ \A d \in Dispatches : w[d] # "idle" => \E i \in 1..Len(cs) : cs[i].by = d

\* Who may yet put a command on the connection that it is not making room for.
Spare(w) == {d \in Dispatches : w[d] \in {"idle", "add"}}

IInv ==
    /\ job \in States /\ stalled \in BOOLEAN
    /\ commands \in Seq(Command) /\ step \in Waits
    /\ Heeds(commands, step)
    /\ Len(commands) <= MaxCommands + Cardinality(Spare(step))

-----------------------------------------------------------------------------
(* What happens to the commands.                                           *)

LEMMA Elements ==
    ASSUME NEW cs \in Seq(Command)
    PROVE  /\ Len(cs) \in Nat /\ DOMAIN cs = 1..Len(cs)
           /\ \A i \in 1..Len(cs) :
                 /\ cs[i] \in Command
                 /\ cs[i].by \in Dispatches \cup {Abandoned}
                 /\ cs[i].cmd \in Steps
           /\ cs # <<>> => Len(cs) >= 1 /\ Head(cs) = cs[1]
<1>1. /\ Len(cs) \in Nat /\ DOMAIN cs = 1..Len(cs)
      /\ \A i \in 1..Len(cs) : cs[i] \in Command
  OBVIOUS
<1>2. cs # <<>> => Len(cs) >= 1 /\ Head(cs) = cs[1]
  OBVIOUS
<1>. QED  BY <1>1, <1>2 DEF Command

LEMMA Tails ==
    ASSUME NEW cs \in Seq(Command), cs # <<>>
    PROVE  /\ Tail(cs) \in Seq(Command) /\ Len(Tail(cs)) = Len(cs) - 1
           /\ \A i \in 1..(Len(cs) - 1) : Tail(cs)[i] = cs[i + 1]
BY HeadTailProperties

LEMMA Appends ==
    ASSUME NEW cs \in Seq(Command), NEW c \in Command
    PROVE  /\ Append(cs, c) \in Seq(Command) /\ Len(Append(cs, c)) = Len(cs) + 1
           /\ \A i \in 1..Len(cs) : Append(cs, c)[i] = cs[i]
           /\ Append(cs, c)[Len(cs) + 1] = c
BY AppendProperties

\* The head leaves; if its sender waits for it, it does not any more.
LEMMA HeadLeaves ==
    ASSUME NEW cs \in Seq(Command), NEW w \in Waits, Heeds(cs, w), cs # <<>>
    PROVE  /\ Head(cs).by = Abandoned => Heeds(Tail(cs), w)
           /\ Head(cs).by \in Dispatches =>
                 /\ Heeds(Tail(cs), [w EXCEPT ![Head(cs).by] = "idle"])
                 /\ Head(cs).cmd = w[Head(cs).by]
<1>1. /\ Len(cs) \in Nat \ {0} /\ Head(cs) = cs[1] /\ 1 \in 1..Len(cs)
      /\ \A i \in 1..Len(cs) : cs[i].by \in Dispatches \cup {Abandoned}
  BY Elements
<1>2. /\ Len(Tail(cs)) = Len(cs) - 1
      /\ \A i \in 1..(Len(cs) - 1) : Tail(cs)[i] = cs[i + 1] /\ i + 1 \in 1..Len(cs)
  BY <1>1, Tails
<1>3. \A i \in 1..Len(cs) : i # 1 => i - 1 \in 1..(Len(cs) - 1) /\ Tail(cs)[i - 1] = cs[i]
  BY <1>1, <1>2
<1>4. ASSUME Head(cs).by = Abandoned PROVE Heeds(Tail(cs), w)
  <2>1. \A d \in Dispatches : cs[1].by # d
    BY <1>1, <1>4, QueueAssumption DEF QueueAssumption
  <2>2. ASSUME NEW d \in Dispatches, w[d] # "idle"
        PROVE  \E i \in 1..Len(Tail(cs)) : Tail(cs)[i].by = d
    <3>1. PICK i \in 1..Len(cs) : cs[i].by = d
      BY <2>2 DEF Heeds
    <3>2. i # 1
      BY <2>1, <3>1
    <3>. QED  BY <1>2, <1>3, <3>1, <3>2
  <2>3. \A i \in 1..Len(Tail(cs)) :
           Tail(cs)[i].by # Abandoned => Tail(cs)[i].cmd = w[Tail(cs)[i].by]
    BY <1>2 DEF Heeds
  <2>4. \A i, j \in 1..Len(Tail(cs)) :
           Tail(cs)[i].by # Abandoned /\ Tail(cs)[i].by = Tail(cs)[j].by => i = j
    BY <1>2 DEF Heeds
  <2>. QED  BY <2>2, <2>3, <2>4 DEF Heeds
<1>5. ASSUME Head(cs).by \in Dispatches
      PROVE  /\ Heeds(Tail(cs), [w EXCEPT ![Head(cs).by] = "idle"])
             /\ Head(cs).cmd = w[Head(cs).by]
  <2>. DEFINE e == Head(cs).by
              v == [w EXCEPT ![e] = "idle"]
  <2>0. e # Abandoned /\ Head(cs).cmd = w[e]
    BY <1>1, <1>5, QueueAssumption DEF QueueAssumption, Heeds
  <2>1. v[e] = "idle" /\ \A d \in Dispatches : d # e => v[d] = w[d]
    BY <1>5 DEF Waits
  <2>. HIDE DEF v
  <2>2. \A i \in 1..Len(Tail(cs)) : Tail(cs)[i].by # e
    BY <1>1, <1>2, <2>0 DEF Heeds
  <2>3. ASSUME NEW d \in Dispatches, v[d] # "idle"
        PROVE  \E i \in 1..Len(Tail(cs)) : Tail(cs)[i].by = d
    <3>1. d # e /\ w[d] # "idle"
      BY <2>1, <2>3
    <3>2. PICK i \in 1..Len(cs) : cs[i].by = d
      BY <3>1 DEF Heeds
    <3>3. i # 1
      BY <1>1, <3>1, <3>2
    <3>. QED  BY <1>2, <1>3, <3>2, <3>3
  <2>4. ASSUME NEW i \in 1..Len(Tail(cs)), Tail(cs)[i].by # Abandoned
        PROVE  Tail(cs)[i].cmd = v[Tail(cs)[i].by]
    <3>1. Tail(cs)[i].by \in Dispatches /\ Tail(cs)[i].by # e
      BY <1>1, <1>2, <2>2, <2>4
    <3>. QED  BY <1>2, <2>1, <2>4, <3>1 DEF Heeds
  <2>5. \A i, j \in 1..Len(Tail(cs)) :
           Tail(cs)[i].by # Abandoned /\ Tail(cs)[i].by = Tail(cs)[j].by => i = j
    BY <1>2 DEF Heeds
  <2>6. Heeds(Tail(cs), v)
    BY <2>3, <2>4, <2>5 DEF Heeds
  <2>. QED  BY <2>0, <2>6 DEF v
<1>. QED  BY <1>4, <1>5

\* A dispatch that waits for nothing sends a command.
LEMMA OneIsSent ==
    ASSUME NEW cs \in Seq(Command), NEW w \in Waits, Heeds(cs, w),
           NEW d \in Dispatches, w[d] = "idle", NEW c \in Steps
    PROVE  Heeds(Append(cs, [by |-> d, cmd |-> c]), [w EXCEPT ![d] = c])
<1>. DEFINE new == [by |-> d, cmd |-> c]
            all == Append(cs, new)
            v == [w EXCEPT ![d] = c]
<1>0. d # Abandoned /\ new \in Command /\ c # "idle"
  BY QueueAssumption DEF QueueAssumption, Command, Steps
<1>1. /\ Len(cs) \in Nat /\ Len(all) = Len(cs) + 1
      /\ \A i \in 1..Len(cs) : all[i] = cs[i]
      /\ all[Len(cs) + 1] = new
      /\ \A i \in 1..Len(cs) : cs[i].by \in Dispatches \cup {Abandoned}
  BY <1>0, Appends, Elements
<1>2. v[d] = c /\ \A e \in Dispatches : e # d => v[e] = w[e]
  BY DEF Waits
<1>3. new.by = d /\ new.cmd = c
  OBVIOUS
<1>. HIDE DEF new, all, v
<1>4. \A i \in 1..Len(cs) : cs[i].by # d /\ cs[i].cmd \in Steps
  <2>1. \A i \in 1..Len(cs) : cs[i].cmd \in Steps
    BY Elements
  <2>. QED  BY <1>0, <2>1 DEF Heeds, Steps
<1>5. \A i \in 1..Len(all) : i = Len(cs) + 1 \/ i \in 1..Len(cs)
  BY <1>1
<1>6. ASSUME NEW i \in 1..Len(all), all[i].by # Abandoned
      PROVE  all[i].cmd = v[all[i].by]
  BY <1>1, <1>2, <1>3, <1>4, <1>5, <1>6 DEF Heeds
<1>7. ASSUME NEW i \in 1..Len(all), NEW j \in 1..Len(all),
             all[i].by # Abandoned, all[i].by = all[j].by
      PROVE  i = j
  BY <1>1, <1>3, <1>4, <1>5, <1>7 DEF Heeds
<1>8. ASSUME NEW e \in Dispatches, v[e] # "idle"
      PROVE  \E i \in 1..Len(all) : all[i].by = e
  <2>1. CASE e = d
    BY <1>1, <1>3, <2>1
  <2>2. CASE e # d
    <3>1. PICK i \in 1..Len(cs) : cs[i].by = e
      BY <1>2, <1>8, <2>2 DEF Heeds
    <3>. QED  BY <1>1, <3>1
  <2>. QED  BY <2>1, <2>2
<1>9. Heeds(all, v)
  BY <1>6, <1>7, <1>8 DEF Heeds
<1>. QED  BY <1>9 DEF all, new, v

\* A dispatch gives its command up.
LEMMA OneIsGivenUp ==
    ASSUME commands \in Seq(Command), step \in Waits, Heeds(commands, step),
           NEW d \in Dispatches
    PROVE  /\ Abandon(d) \in Seq(Command) /\ Len(Abandon(d)) = Len(commands)
           /\ Heeds(Abandon(d), [step EXCEPT ![d] = "idle"])
<1>. DEFINE left == Abandon(d)
            v == [step EXCEPT ![d] = "idle"]
<1>1. /\ Len(commands) \in Nat /\ DOMAIN commands = 1..Len(commands)
      /\ \A i \in 1..Len(commands) :
            /\ commands[i] \in Command
            /\ commands[i].by \in Dispatches \cup {Abandoned}
  BY Elements
<1>2. left = [i \in 1..Len(commands) |->
                 IF commands[i].by = d THEN [commands[i] EXCEPT !.by = Abandoned]
                 ELSE commands[i]]
  BY <1>1 DEF Abandon
<1>3. \A i \in 1..Len(commands) :
         /\ left[i] \in Command /\ left[i].cmd = commands[i].cmd
         /\ left[i].by = IF commands[i].by = d THEN Abandoned ELSE commands[i].by
  BY <1>1, <1>2 DEF Command
<1>4. left \in Seq(Command) /\ Len(left) = Len(commands)
  BY <1>1, <1>2, <1>3
<1>5. v[d] = "idle" /\ \A e \in Dispatches : e # d => v[e] = step[e]
  BY DEF Waits
<1>6. d # Abandoned
  BY QueueAssumption DEF QueueAssumption
<1>. HIDE DEF left, v
<1>7. ASSUME NEW i \in 1..Len(left), left[i].by # Abandoned
      PROVE  left[i].cmd = v[left[i].by]
  BY <1>1, <1>3, <1>4, <1>5, <1>7 DEF Heeds
<1>8. ASSUME NEW i \in 1..Len(left), NEW j \in 1..Len(left),
             left[i].by # Abandoned, left[i].by = left[j].by
      PROVE  i = j
  BY <1>3, <1>4, <1>8 DEF Heeds
<1>9. ASSUME NEW e \in Dispatches, v[e] # "idle"
      PROVE  \E i \in 1..Len(left) : left[i].by = e
  <2>1. PICK i \in 1..Len(commands) : commands[i].by = e
    BY <1>5, <1>9 DEF Heeds
  <2>. QED  BY <1>3, <1>4, <1>5, <1>9, <2>1
<1>10. Heeds(left, v)
  BY <1>7, <1>8, <1>9 DEF Heeds
<1>. QED  BY <1>4, <1>10 DEF left, v
-----------------------------------------------------------------------------
(* What a step does to them.                                               *)

LEMMA Senders ==
    ASSUME IInv, commands # <<>>
    PROVE  Sender \in Dispatches \cup {Abandoned}
<1>1. commands \in Seq(Command)
  BY DEF IInv
<1>2. Head(commands) = commands[1] /\ 1 \in 1..Len(commands)
  BY <1>1, Elements
<1>3. commands[1].by \in Dispatches \cup {Abandoned}
  BY <1>1, <1>2, Elements
<1>. QED  BY <1>2, <1>3 DEF Sender

\* The head leaves, and its sender waits for nothing.
LEMMA HeadIsDone ==
    ASSUME IInv, commands # <<>>, Sender # Abandoned, Done
    PROVE  /\ Sender \in Dispatches /\ Head(commands).cmd = step[Sender]
           /\ commands' \in Seq(Command) /\ step' \in Waits
           /\ Heeds(commands', step') /\ Len(commands') = Len(commands) - 1
<1>1. Sender \in Dispatches
  BY Senders
<1>2. step' = [step EXCEPT ![Sender] = "idle"] /\ commands' = Tail(commands)
  BY DEF Done, Wait
<1>3. /\ Heeds(Tail(commands), [step EXCEPT ![Sender] = "idle"])
      /\ Head(commands).cmd = step[Sender]
  BY <1>1, HeadLeaves DEF IInv, Sender
<1>4. commands' \in Seq(Command) /\ Len(commands') = Len(commands) - 1
  BY <1>2, Tails DEF IInv
<1>5. step' \in Waits
  BY <1>2 DEF IInv, Waits
<1>. QED  BY <1>1, <1>2, <1>3, <1>4, <1>5

\* The head leaves, and its sender sends another.
LEMMA AnotherIsSent ==
    ASSUME IInv, commands # <<>>, Sender # Abandoned, NEW c \in Steps, Then(c)
    PROVE  /\ Sender \in Dispatches /\ Head(commands).cmd = step[Sender]
           /\ commands' \in Seq(Command) /\ step' \in Waits
           /\ Heeds(commands', step') /\ Len(commands') = Len(commands)
<1>. DEFINE left == Tail(commands)
            w == [step EXCEPT ![Sender] = "idle"]
            new == [by |-> Sender, cmd |-> c]
<1>1. Sender \in Dispatches
  BY Senders
<1>2. step' = [step EXCEPT ![Sender] = c] /\ commands' = Append(left, new)
  BY DEF Then, Wait
<1>3. Heeds(left, w) /\ Head(commands).cmd = step[Sender]
  BY <1>1, HeadLeaves DEF IInv, Sender
<1>4. left \in Seq(Command) /\ Len(left) = Len(commands) - 1 /\ Len(commands) \in Nat
  BY Tails, Elements DEF IInv
<1>5. w \in Waits /\ w[Sender] = "idle" /\ [w EXCEPT ![Sender] = c] = step'
      /\ step' \in Waits
  BY <1>1, <1>2 DEF IInv, Waits
<1>6. new \in Command
  BY <1>1 DEF Command
<1>. HIDE DEF left, w
<1>7. Heeds(commands', step')
  BY <1>1, <1>2, <1>3, <1>4, <1>5, OneIsSent
<1>8. commands' \in Seq(Command) /\ Len(commands') = Len(left) + 1
  BY <1>2, <1>4, <1>6, Appends
<1>. QED  BY <1>1, <1>3, <1>4, <1>5, <1>7, <1>8

\* An abandoned head leaves and nobody hears of it.
LEMMA NobodyHears ==
    ASSUME IInv, commands # <<>>, Sender = Abandoned, Ignored
    PROVE  /\ commands' \in Seq(Command) /\ step' = step
           /\ Heeds(commands', step') /\ Len(commands') = Len(commands) - 1
<1>1. commands' = Tail(commands) /\ step' = step
  BY DEF Ignored
<1>2. Heeds(Tail(commands), step)
  BY HeadLeaves DEF IInv, Sender
<1>3. Tail(commands) \in Seq(Command) /\ Len(Tail(commands)) = Len(commands) - 1
  BY Tails DEF IInv
<1>. QED  BY <1>1, <1>2, <1>3

LEMMA Spares ==
    ASSUME NEW w
    PROVE  /\ IsFiniteSet(Spare(w)) /\ Cardinality(Spare(w)) \in Nat
           /\ Cardinality(Spare(w)) <= Cardinality(Dispatches)
           /\ Cardinality(Dispatches) \in Nat
<1>1. IsFiniteSet(Dispatches) /\ Spare(w) \subseteq Dispatches
  BY QueueAssumption DEF QueueAssumption, Spare
<1>. QED  BY <1>1, FS_Subset, FS_CardinalityType

\* What keeps the invariant: the commands do not grow and whoever was spare still is,
\* or they grow by one and one more is.
LEMMA Keeps ==
    ASSUME IInv, job' \in States, stalled' \in BOOLEAN,
           commands' \in Seq(Command), step' \in Waits, Heeds(commands', step'),
           \/ Len(commands') <= Len(commands) /\ Spare(step) \subseteq Spare(step')
           \/ /\ Len(commands') = Len(commands) + 1
              /\ \E d \in Dispatches : d \notin Spare(step)
                                       /\ Spare(step') = Spare(step) \cup {d}
           \/ Len(commands') <= MaxCommands
    PROVE  IInv'
<1>1. /\ Len(commands) <= MaxCommands + Cardinality(Spare(step))
      /\ Len(commands) \in Nat /\ Len(commands') \in Nat /\ MaxCommands \in Nat
  BY QueueAssumption DEF IInv, QueueAssumption
<1>2. Cardinality(Spare(step)) \in Nat /\ Cardinality(Spare(step')) \in Nat
      /\ IsFiniteSet(Spare(step)) /\ IsFiniteSet(Spare(step'))
  BY Spares
<1>3. Len(commands') <= MaxCommands + Cardinality(Spare(step'))
  <2>1. CASE Len(commands') <= Len(commands) /\ Spare(step) \subseteq Spare(step')
    <3>1. Cardinality(Spare(step)) <= Cardinality(Spare(step'))
      BY <1>2, <2>1, FS_Subset
    <3>. QED  BY <1>1, <1>2, <2>1, <3>1
  <2>2. ASSUME Len(commands') = Len(commands) + 1,
               NEW d \in Dispatches, d \notin Spare(step),
               Spare(step') = Spare(step) \cup {d}
        PROVE  Len(commands') <= MaxCommands + Cardinality(Spare(step'))
    <3>1. Cardinality(Spare(step')) = Cardinality(Spare(step)) + 1
      BY <1>2, <2>2, FS_AddElement
    <3>. QED  BY <1>1, <1>2, <2>2, <3>1
  <2>3. CASE Len(commands') <= MaxCommands
    BY <1>1, <1>2, <2>3
  <2>. QED  BY <2>1, <2>2, <2>3
<1>. QED  BY <1>3 DEF IInv, Spare

\* Whoever waited for its answer to be done, or to add, may well be spare then.
LEMMA StillSpare ==
    ASSUME step \in Waits, NEW d \in Dispatches, NEW c,
           step' = [step EXCEPT ![d] = c], c \in {"idle", "add"} \/ d \notin Spare(step)
    PROVE  /\ Spare(step) \subseteq Spare(step')
           /\ c \in {"idle", "add"} => Spare(step') = Spare(step) \cup {d}
BY DEF Waits, Spare

\* A dispatch whose command throws, the command being gone from what is left.
LEMMA ThrownKeeps ==
    ASSUME IInv, NEW d \in Dispatches, NEW left \in Seq(Command),
           Heeds(left, [step EXCEPT ![d] = "idle"]), Len(left) <= Len(commands),
           Thrown(d, left), UNCHANGED <<job, stalled>>
    PROVE  IInv'
<1>. DEFINE w == [step EXCEPT ![d] = "idle"]
            new == [by |-> d, cmd |-> "add"]
<1>1. CASE step[d] = "remove"
  <2>1. commands' = Append(left, new) /\ step' = [step EXCEPT ![d] = "add"]
    BY <1>1 DEF Thrown, Wait
  <2>2. w \in Waits /\ w[d] = "idle" /\ [w EXCEPT ![d] = "add"] = step'
        /\ step' \in Waits
    BY <2>1 DEF IInv, Waits, Steps
  <2>3. new \in Command /\ "add" \in Steps
    BY DEF Command, Steps
  <2>4. Heeds(left, w)
    OBVIOUS
  <2>. HIDE DEF w
  <2>5. Heeds(commands', step')
    BY <2>1, <2>2, <2>3, <2>4, OneIsSent
  <2>6. commands' \in Seq(Command) /\ Len(commands') = Len(left) + 1
    BY <2>1, <2>3, Appends
  <2>7. d \notin Spare(step) /\ Spare(step') = Spare(step) \cup {d}
    BY <1>1, <2>1, StillSpare DEF Spare, IInv
  <2>8. Len(left) \in Nat /\ Len(commands) \in Nat
    BY Elements DEF IInv
  <2>9. Len(commands') <= Len(commands) \/ Len(commands') = Len(commands) + 1
    BY <2>6, <2>8
  <2>10. Spare(step) \subseteq Spare(step')
    BY <2>7
  <2>11. job' \in States /\ stalled' \in BOOLEAN
    BY DEF IInv
  <2>. QED  BY <2>2, <2>5, <2>6, <2>7, <2>9, <2>10, <2>11, Keeps
<1>2. CASE step[d] # "remove"
  <2>1. commands' = left /\ step' = w
    BY <1>2 DEF Thrown, Wait
  <2>2. step' \in Waits
    BY <2>1 DEF IInv, Waits
  <2>3. Spare(step) \subseteq Spare(step')
    BY <2>1, StillSpare DEF IInv
  <2>4. job' \in States /\ stalled' \in BOOLEAN
    BY DEF IInv
  <2>5. Heeds(commands', step') /\ Len(commands') <= Len(commands)
        /\ commands' \in Seq(Command)
    BY <2>1
  <2>. QED  BY <2>2, <2>3, <2>4, <2>5, Keeps
<1>. QED  BY <1>1, <1>2

LEMMA InitIInv == Init => IInv
<1>. SUFFICES ASSUME Init PROVE IInv
  OBVIOUS
<1>1. commands = <<>> /\ Len(commands) = 0 /\ commands \in Seq(Command)
  BY DEF Init
<1>2. Heeds(commands, step)
  BY <1>1 DEF Init, Heeds
<1>3. Cardinality(Spare(step)) \in Nat /\ MaxCommands \in Nat
  BY Spares, QueueAssumption DEF QueueAssumption
<1>4. Len(commands) <= MaxCommands + Cardinality(Spare(step))
  BY <1>1, <1>3
<1>5. job \in States /\ stalled \in BOOLEAN /\ step \in Waits
  BY DEF Init, States, Waits
<1>. QED  BY <1>1, <1>2, <1>4, <1>5 DEF IInv

\* Nobody starts with the connection full, so what it makes room for is its own.
LEMMA DispatchKeeps ==
    ASSUME IInv, NEW d \in Dispatches, Dispatch(d)
    PROVE  IInv'
<1>. DEFINE new == [by |-> d, cmd |-> "getJob"]
<1>1. /\ step[d] = "idle" /\ Len(commands) < MaxCommands
      /\ commands' = Append(commands, new) /\ step' = [step EXCEPT ![d] = "getJob"]
      /\ UNCHANGED <<job, stalled>>
  BY DEF Dispatch, Wait
<1>2. "getJob" \in Steps /\ new \in Command
  BY DEF Steps, Command
<1>3. Heeds(commands', step')
  BY <1>1, <1>2, OneIsSent DEF IInv
<1>4. commands' \in Seq(Command) /\ Len(commands') = Len(commands) + 1
      /\ Len(commands) \in Nat
  BY <1>1, <1>2, Appends, Elements DEF IInv
<1>5. Len(commands') <= MaxCommands
  BY <1>1, <1>4, QueueAssumption DEF QueueAssumption
<1>6. step' \in Waits /\ job' \in States /\ stalled' \in BOOLEAN
  BY <1>1, <1>2 DEF IInv, Waits
<1>. QED  BY <1>3, <1>4, <1>5, <1>6, Keeps

\* A command takes effect: nobody hears, its sender is done, or it sends the next.
Answers ==
    \/ Sender = Abandoned /\ Ignored
    \/ Sender # Abandoned /\ Done
    \/ /\ Sender # Abandoned
       /\ \/ Then("add")
          \/ Head(commands).cmd \in {"getJob", "getState"}
                /\ (Then("getState") \/ Then("remove"))

LEMMA AnswersKeep ==
    ASSUME IInv, commands # <<>>, Answers, job' \in States, stalled' \in BOOLEAN
    PROVE  IInv'
<1>0. Len(commands) \in Nat
  BY Elements DEF IInv
<1>1. CASE Sender = Abandoned /\ Ignored
  <2>1. /\ commands' \in Seq(Command) /\ step' = step
        /\ Heeds(commands', step') /\ Len(commands') = Len(commands) - 1
    BY <1>1, NobodyHears
  <2>2. step' \in Waits /\ Spare(step) \subseteq Spare(step')
        /\ Len(commands') <= Len(commands)
    BY <1>0, <2>1 DEF IInv
  <2>. QED  BY <2>1, <2>2, Keeps
<1>2. CASE Sender # Abandoned /\ Done
  <2>1. /\ Sender \in Dispatches
        /\ commands' \in Seq(Command) /\ step' \in Waits
        /\ Heeds(commands', step') /\ Len(commands') = Len(commands) - 1
    BY <1>2, HeadIsDone
  <2>2. Spare(step) \subseteq Spare(step')
    BY <1>2, <2>1, StillSpare DEF Done, Wait, IInv
  <2>3. Len(commands') <= Len(commands)
    BY <1>0, <2>1
  <2>. QED  BY <2>1, <2>2, <2>3, Keeps
<1>3. ASSUME Sender # Abandoned, NEW c \in Steps, Then(c),
             c = "add" \/ Head(commands).cmd \in {"getJob", "getState"}
      PROVE  IInv'
  <2>1. /\ Sender \in Dispatches /\ Head(commands).cmd = step[Sender]
        /\ commands' \in Seq(Command) /\ step' \in Waits
        /\ Heeds(commands', step') /\ Len(commands') = Len(commands)
    BY <1>3, AnotherIsSent
  <2>2. c \in {"idle", "add"} \/ Sender \notin Spare(step)
    BY <1>3, <2>1 DEF Spare
  <2>3. Spare(step) \subseteq Spare(step')
    BY <1>3, <2>1, <2>2, StillSpare DEF Then, Wait, IInv
  <2>4. Len(commands') <= Len(commands)
    BY <1>0, <2>1
  <2>. QED  BY <2>1, <2>3, <2>4, Keeps
<1>. QED  BY <1>1, <1>2, <1>3 DEF Answers, Steps

\* Every step keeps the invariant.
LEMMA NextIInv == IInv /\ [Next]_vars => IInv'
<1>. SUFFICES ASSUME IInv, [Next]_vars PROVE IInv'
  OBVIOUS
<1>0. job \in States /\ stalled \in BOOLEAN
  BY DEF IInv
<1>1. ASSUME NEW d \in Dispatches, Dispatch(d) PROVE IInv'
  BY <1>1, DispatchKeeps
<1>2. CASE GetJob
  <2>1. commands # <<>> /\ Answers /\ job' = job /\ stalled' = stalled
    BY <1>2 DEF GetJob, Executes, Answers
  <2>. QED  BY <1>0, <2>1, AnswersKeep
<1>3. CASE GetState
  <2>1. commands # <<>> /\ Answers /\ job' = job /\ stalled' = stalled
    BY <1>3 DEF GetState, Executes, Answers
  <2>. QED  BY <1>0, <2>1, AnswersKeep
<1>4. CASE Remove
  <2>1. commands # <<>> /\ Answers
    BY <1>4 DEF Remove, Executes, Answers
  <2>2. job' \in States /\ stalled' \in BOOLEAN
    BY <1>0, <1>4 DEF Remove, States
  <2>. QED  BY <2>1, <2>2, AnswersKeep
<1>5. CASE Add
  <2>1. commands # <<>> /\ Answers
    BY <1>5 DEF Add, Executes, Answers
  <2>2. job' \in States /\ stalled' \in BOOLEAN
    BY <1>0, <1>5 DEF Add, States
  <2>. QED  BY <2>1, <2>2, AnswersKeep
<1>6. CASE Reject
  <2>1. /\ commands # <<>> /\ Sender # Abandoned
        /\ Thrown(Sender, Tail(commands)) /\ UNCHANGED <<job, stalled>>
    BY <1>6 DEF Reject
  <2>2. Sender \in Dispatches
    BY <2>1, Senders
  <2>3. Heeds(Tail(commands), [step EXCEPT ![Sender] = "idle"])
    BY <2>1, <2>2, HeadLeaves DEF IInv, Sender
  <2>4. Tail(commands) \in Seq(Command) /\ Len(Tail(commands)) <= Len(commands)
    <3>1. Len(commands) \in Nat
      BY Elements DEF IInv
    <3>. QED  BY <2>1, <3>1, Tails DEF IInv
  <2>. QED  BY <2>1, <2>2, <2>3, <2>4, ThrownKeeps
<1>7. ASSUME NEW d \in Dispatches, TimeOut(d) PROVE IInv'
  <2>1. Thrown(d, Abandon(d)) /\ UNCHANGED <<job, stalled>>
    BY <1>7 DEF TimeOut
  <2>2. /\ Abandon(d) \in Seq(Command) /\ Len(Abandon(d)) = Len(commands)
        /\ Heeds(Abandon(d), [step EXCEPT ![d] = "idle"])
    BY OneIsGivenUp DEF IInv
  <2>3. Len(Abandon(d)) <= Len(commands)
    BY <2>2, Elements DEF IInv
  <2>. QED  BY <2>1, <2>2, <2>3, ThrownKeeps
<1>8. CASE Take \/ Finish \/ LoseLock \/ FindStalled \/ Orphan \/ UNCHANGED vars
  <2>1. UNCHANGED <<commands, step>> /\ job' \in States /\ stalled' \in BOOLEAN
    BY <1>0, <1>8 DEF Take, Finish, LoseLock, FindStalled, Orphan, vars, States
  <2>. QED  BY <2>1 DEF IInv
<1>. QED  BY <1>1, <1>2, <1>3, <1>4, <1>5, <1>6, <1>7, <1>8
          DEF Next, Execute, SomeDeadlinePasses

\* In every reachable state a waiting dispatch has its one command on the connection.
THEOREM Invariance == Spec => []IInv
BY InitIInv, NextIInv, PTL DEF Spec

\* Every variable keeps its type, and however long Redis does not answer, what the
\* dispatches leave on the connection stays within one command each of the bound.
THEOREM TypeCorrect == Spec => []TypeOK
<1>1. IInv => TypeOK
  <2>. SUFFICES ASSUME IInv PROVE TypeOK
    OBVIOUS
  <2>1. Len(commands) <= MaxCommands + Cardinality(Dispatches)
    <3>1. Len(commands) <= MaxCommands + Cardinality(Spare(step))
          /\ Len(commands) \in Nat /\ MaxCommands \in Nat
      BY Elements, QueueAssumption DEF IInv, QueueAssumption
    <3>. QED  BY <3>1, Spares
  <2>. QED  BY <2>1 DEF IInv, TypeOK, Command, Waits
<1>. QED  BY <1>1, Invariance, PTL
=============================================================================
