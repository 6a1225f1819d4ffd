------------------------- MODULE PlaceholderProofs -------------------------
(***************************************************************************)
(* The safety of Placeholder for any number of threads and names, and      *)
(* whatever the load functions use.                                        *)
(***************************************************************************)
EXTENDS Placeholder, SequenceTheorems, TLAPS

\* Nothing has been loaded for p, or all that replaces the placeholder is done.
Fresh(p) == loader[p] /\ loads[p] = 0 /\ scope[p] = 0 /\ ~fast[p]
Done(p) == ~loader[p] /\ loads[p] = 1 /\ scope[p] = 1 /\ fast[p]

NameOK(p) ==
  /\ lock[p] = NoThread => Fresh(p) \/ Done(p)
  /\ fast[p] => scope[p] = 1
  /\ loads[p] <= 1 /\ scope[p] <= 1

\* What a thread may rely on at each step of a use.
UseOK(t, p) ==
  /\ at[t][p] = "load" => Fresh(p)
  /\ at[t][p] = "scope" =>
       loader[p] /\ loads[p] = 1 /\ scope[p] = 0 /\ ~fast[p] /\ result[t][p] = 1
  /\ at[t][p] = "fast" =>
       loader[p] /\ loads[p] = 1 /\ scope[p] = 1 /\ ~fast[p] /\ result[t][p] = 1
  /\ at[t][p] = "clear" =>
       loader[p] /\ loads[p] = 1 /\ scope[p] = 1 /\ fast[p] /\ result[t][p] = 1
  /\ at[t][p] \in {"tid", "unlock"} => Done(p) /\ result[t][p] = 1
  /\ at[t][p] = "known" => fast[p]

\* The names on a stack are different, and all but the last are being loaded.
StackOK(t) ==
  /\ \A i \in 1..Len(stack[t]) : at[t][stack[t][i]] # "idle"
  /\ \A i, j \in 1..Len(stack[t]) : stack[t][i] = stack[t][j] => i = j
  /\ \A i \in 1..Len(stack[t]) : i < Len(stack[t]) => at[t][stack[t][i]] = "load"
  /\ raising[t] => Len(stack[t]) > 0 /\ at[t][Top(t)] = "load"

IInv ==
  /\ TypeOK
  /\ LockHeldInside
  /\ EveryoneGetsTheObject
  /\ \A p \in Names : NameOK(p)
  /\ \A t \in Threads : StackOK(t) /\ \A p \in Names : UseOK(t, p)
---------------------------------------------------------------------------

\* What pushing does to a stack.
LEMMA PushFacts ==
  ASSUME NEW S, NEW s \in Seq(S), NEW e \in S
  PROVE  /\ Append(s, e) \in Seq(S)
         /\ Len(s) \in Nat
         /\ Len(Append(s, e)) = Len(s) + 1
         /\ \A i \in 1..Len(s) : Append(s, e)[i] = s[i]
         /\ Append(s, e)[Len(s) + 1] = e
  OBVIOUS

\* What a prefix of a stack is.
LEMMA PrefixFacts ==
  ASSUME NEW S, NEW s \in Seq(S), NEW n \in 0..Len(s)
  PROVE  /\ SubSeq(s, 1, n) \in Seq(S)
         /\ Len(SubSeq(s, 1, n)) = n
         /\ \A i \in 1..n : SubSeq(s, 1, n)[i] = s[i]
  OBVIOUS

\* What popping does to a stack.
LEMMA PopFacts ==
  ASSUME NEW S, NEW s \in Seq(S), s # <<>>
  PROVE  /\ Len(s) \in Nat \ {0}
         /\ s[Len(s)] \in S
         /\ SubSeq(s, 1, Len(s) - 1) \in Seq(S)
         /\ Len(SubSeq(s, 1, Len(s) - 1)) = Len(s) - 1
         /\ \A i \in 1..(Len(s) - 1) : SubSeq(s, 1, Len(s) - 1)[i] = s[i]
<1>1. Len(s) \in Nat \ {0} /\ s[Len(s)] \in S /\ \A i \in 1..Len(s) : s[i] \in S
  OBVIOUS
<1>2. Len(s) - 1 \in 0..Len(s)
  BY <1>1
<1>3. QED
  BY <1>1, <1>2, PrefixFacts

\* Changing the step of one use of one thread.
LEMMA AtFacts ==
  ASSUME NEW t \in Threads, NEW p \in Names, NEW s \in Steps,
         at \in [Threads -> [Names -> Steps]], at' = [at EXCEPT ![t][p] = s]
  PROVE  /\ at' \in [Threads -> [Names -> Steps]]
         /\ at'[t][p] = s
         /\ \A u \in Threads, q \in Names : u # t \/ q # p => at'[u][q] = at[u][q]
  OBVIOUS

\* What the invariant says of the type of `at`, alone.
LEMMA AtTyped == ASSUME IInv PROVE at \in [Threads -> [Names -> Steps]]
  BY DEF IInv, TypeOK

\* Setting the local `result` of one use of one thread.
LEMMA ResultFacts ==
  ASSUME NEW t \in Threads, NEW p \in Names, NEW v \in Nat,
         result \in [Threads -> [Names -> Nat]], result' = [result EXCEPT ![t][p] = v]
  PROVE  /\ result' \in [Threads -> [Names -> Nat]]
         /\ result'[t][p] = v
         /\ \A u \in Threads, q \in Names :
              u # t \/ q # p => result'[u][q] = result[u][q]
  OBVIOUS

\* Dropping a name from what one use has yet to use.
LEMMA TodoFacts ==
  ASSUME NEW t \in Threads, NEW p, NEW q, todo \in [Threads -> [Names -> SUBSET Names]],
         todo' = [todo EXCEPT ![t][q] = @ \ {p}]
  PROVE  todo' \in [Threads -> [Names -> SUBSET Names]]
<1>1. CASE q \in Names
  BY <1>1
<1>2. CASE q \notin Names
  BY <1>2
<1>3. QED
  BY <1>1, <1>2

SameName(q) ==
  /\ lock'[q] = lock[q]
  /\ loader'[q] = loader[q]
  /\ fast'[q] = fast[q]
  /\ scope'[q] = scope[q]
  /\ loads'[q] = loads[q]

\* A step of t in a use of p can only disturb what is known of p, and only while
\* no other thread is inside the with statement of p.
LEMMA Local ==
  ASSUME IInv, NEW t \in Threads, NEW p \in Names,
         \A q \in Names : q # p => SameName(q),
         \A u \in Threads, q \in Names :
           u # t \/ q # p => at'[u][q] = at[u][q] /\ result'[u][q] = result[u][q],
         lock[p] \notin {t, NoThread} => SameName(p),
         lock[p] \in {t, NoThread} => lock'[p] \in {t, NoThread},
         fast[p] => fast'[p],
         lock'[p] = t <=> at'[t][p] \in Inside,
         NameOK(p)', UseOK(t, p)'
  PROVE  /\ LockHeldInside'
         /\ \A q \in Names : NameOK(q)'
         /\ \A u \in Threads, q \in Names : UseOK(u, q)'
<1> USE NoThreadAssumption
<1>1. \A u \in Threads : u # t /\ at[u][p] \in Inside => lock[p] \notin {t, NoThread}
  BY DEF IInv, LockHeldInside
<1>2. ASSUME NEW u \in Threads, NEW q \in Names
      PROVE  lock'[q] = u <=> at'[u][q] \in Inside
  <2>1. lock[q] = u <=> at[u][q] \in Inside
    BY DEF IInv, LockHeldInside
  <2>2. CASE q # p
    BY <2>1, <2>2 DEF SameName
  <2>3. CASE q = p /\ u # t
    BY <2>1, <2>3 DEF SameName
  <2>4. CASE q = p /\ u = t
    BY <2>4
  <2>5. QED
    BY <2>2, <2>3, <2>4
<1>3. ASSUME NEW q \in Names PROVE NameOK(q)'
  <2>1. CASE q # p
    BY <2>1 DEF IInv, NameOK, Fresh, Done, SameName
  <2>2. QED
    BY <2>1
<1>4. ASSUME NEW u \in Threads, NEW q \in Names PROVE UseOK(u, q)'
  <2>1. UseOK(u, q)
    BY DEF IInv
  <2>2. CASE q # p
    BY <2>1, <2>2 DEF UseOK, Fresh, Done, SameName
  <2>3. CASE q = p /\ u # t
    <3>1. at'[u][q] = at[u][q] /\ result'[u][q] = result[u][q]
      BY <2>3
    <3>2. CASE at[u][q] \in Inside
      <4>1. SameName(q)
        BY <1>1, <2>3, <3>2
      <4>2. QED
        BY <2>1, <3>1, <4>1 DEF UseOK, Fresh, Done, SameName
    <3>3. CASE at[u][q] \notin Inside
      BY <2>1, <2>3, <3>1, <3>3 DEF UseOK, Inside
    <3>4. QED
      BY <3>2, <3>3
  <2>4. QED
    BY <2>2, <2>3
<1>5. QED
  BY <1>2, <1>3, <1>4 DEF LockHeldInside

\* Everyone has the same object as long as a binding is never replaced.
LEMMA EveryoneKept ==
  ASSUME EveryoneGetsTheObject, NEW t \in Threads, NEW p \in Names,
         obtained \in [Threads -> SUBSET (Names \X Nat)],
         \A q \in Names : scope[q] # 0 => scope'[q] = scope[q],
         \/ obtained' = obtained
         \/ /\ obtained' = [obtained EXCEPT ![t] = @ \cup {<<p, scope'[p]>>}]
            /\ scope'[p] # 0
  PROVE  EveryoneGetsTheObject'
<1> SUFFICES ASSUME NEW u \in Threads, NEW pair \in obtained'[u]
             PROVE  pair[2] # 0 /\ pair[2] = scope'[pair[1]]
  BY DEF EveryoneGetsTheObject
<1>1. CASE pair \in obtained[u]
  <2>1. pair[1] \in Names /\ pair[2] # 0 /\ pair[2] = scope[pair[1]]
    BY <1>1 DEF EveryoneGetsTheObject
  <2>2. QED
    BY <2>1
<1>2. CASE pair \notin obtained[u]
  BY <1>2
<1>3. QED
  BY <1>1, <1>2

\* The stacks when the innermost use goes on to another step.
LEMMA StackGoto ==
  ASSUME IInv, NEW t \in Threads, NEW p \in Names, NEW s \in Steps, NEW r,
         On(t, p, r), s # "idle", Goto(t, p, s), UNCHANGED raising
  PROVE  \A u \in Threads : StackOK(u)'
<1> SUFFICES ASSUME NEW u \in Threads PROVE StackOK(u)'
  OBVIOUS
<1> DEFINE n == Len(stack[t])
<1>1. /\ stack[t] \in Seq(Names) /\ n \in Nat \ {0} /\ stack[t][n] = p
      /\ ~raising[t] /\ stack' = stack /\ StackOK(u) /\ StackOK(t)
  BY PopFacts DEF On, Goto, Top, IInv, TypeOK
<1>2. /\ at'[t][p] = s
      /\ \A v \in Threads, q \in Names : v # t \/ q # p => at'[v][q] = at[v][q]
  BY AtTyped, AtFacts DEF Goto
<1>3. CASE u # t
  <2>1. \A q \in Names : at'[u][q] = at[u][q]
    BY <1>2, <1>3
  <2>2. stack[u] \in Seq(Names)
    BY DEF IInv, TypeOK
  <2>3. \A i \in 1..Len(stack[u]) : stack[u][i] \in Names
    BY <2>2
  <2>4. Len(stack[u]) > 0 => Top(u) \in Names
    BY <2>2 DEF Top
  <2>5. QED
    BY <1>1, <2>1, <2>3, <2>4 DEF StackOK, Top
<1>4. CASE u = t
  <2>1. \A i \in 1..n : stack[t][i] \in Names
    BY <1>1
  <2>2. \A i \in 1..n : i < n => stack[t][i] # p
    BY <1>1 DEF StackOK
  <2>3. \A i \in 1..n : i < n => at'[t][stack[t][i]] = at[t][stack[t][i]]
    BY <1>2, <2>1, <2>2
  <2>4. \A i \in 1..n : at'[t][stack[t][i]] # "idle"
    BY <1>1, <1>2, <2>3 DEF StackOK
  <2>5. QED
    BY <1>1, <1>4, <2>3, <2>4 DEF StackOK
<1>5. QED
  BY <1>3, <1>4

\* The stacks when a use begins, from outside or from the innermost load.
LEMMA StackPush ==
  ASSUME IInv, NEW t \in Threads, NEW p \in Names, ~raising[t],
         stack[t] # <<>> => at[t][Top(t)] = "load", Push(t, p), UNCHANGED raising
  PROVE  \A u \in Threads : StackOK(u)'
<1> SUFFICES ASSUME NEW u \in Threads PROVE StackOK(u)'
  OBVIOUS
<1> DEFINE n == Len(stack[t])
<1>1. /\ stack[t] \in Seq(Names) /\ n \in Nat /\ StackOK(u) /\ StackOK(t)
      /\ "enter" \in Steps
  BY DEF IInv, TypeOK, Steps
<1>2. /\ at'[t][p] = "enter"
      /\ \A v \in Threads, q \in Names : v # t \/ q # p => at'[v][q] = at[v][q]
  BY <1>1, AtTyped, AtFacts DEF Push
<1>3. CASE u # t
  <2>1. (\A q \in Names : at'[u][q] = at[u][q]) /\ stack'[u] = stack[u]
    BY <1>2, <1>3 DEF Push, IInv, TypeOK
  <2>2. stack[u] \in Seq(Names)
    BY DEF IInv, TypeOK
  <2>3. \A i \in 1..Len(stack[u]) : stack[u][i] \in Names
    BY <2>2
  <2>4. Len(stack[u]) > 0 => Top(u) \in Names
    BY <2>2 DEF Top
  <2>5. QED
    BY <1>1, <2>1, <2>3, <2>4 DEF StackOK, Top
<1>4. CASE u = t
  <2>1. /\ stack'[t] = Append(stack[t], p) /\ Len(stack'[t]) = n + 1
        /\ \A i \in 1..n : stack'[t][i] = stack[t][i]
        /\ stack'[t][n + 1] = p
    BY <1>1, PushFacts DEF Push, IInv, TypeOK
  <2>2. \A i \in 1..n : stack[t][i] \in Names /\ stack[t][i] # p
    BY <1>1 DEF StackOK, Push
  <2>3. \A i \in 1..n : at'[t][stack[t][i]] = at[t][stack[t][i]]
    BY <1>2, <2>2
  <2>4. \A i \in 1..n : at[t][stack[t][i]] = "load"
    <3>1. n > 0 => at[t][stack[t][n]] = "load"
      BY <1>1 DEF Top
    <3>2. QED
      BY <1>1, <3>1 DEF StackOK
  <2>5. \A i \in 1..(n + 1) :
          /\ at'[t][stack'[t][i]] # "idle"
          /\ i < n + 1 => at'[t][stack'[t][i]] = "load"
    BY <1>1, <1>2, <2>1, <2>3, <2>4
  <2>6. \A i, j \in 1..(n + 1) : stack'[t][i] = stack'[t][j] => i = j
    BY <1>1, <2>1, <2>2 DEF StackOK
  <2>7. QED
    BY <1>1, <1>4, <2>1, <2>5, <2>6 DEF StackOK
<1>5. QED
  BY <1>3, <1>4

\* The stacks when the innermost use ends, with an object or an exception.
LEMMA StackPop ==
  ASSUME IInv, NEW t \in Threads, NEW p \in Names,
         stack[t] # <<>>, Top(t) = p,
         stack' = [stack EXCEPT ![t] = SubSeq(@, 1, Len(@) - 1)],
         at' = [at EXCEPT ![t][p] = "idle"],
         \/ ~raising[t] /\ UNCHANGED raising
         \/ raising' = [raising EXCEPT ![t] = Len(stack[t]) > 1]
  PROVE  \A u \in Threads : StackOK(u)'
<1> SUFFICES ASSUME NEW u \in Threads PROVE StackOK(u)'
  OBVIOUS
<1> DEFINE n == Len(stack[t])
<1>1. /\ stack[t] \in Seq(Names) /\ n \in Nat \ {0} /\ stack[t][n] = p
      /\ StackOK(u) /\ StackOK(t) /\ "idle" \in Steps
  BY PopFacts DEF IInv, TypeOK, Top, Steps
<1>2. /\ at'[t][p] = "idle"
      /\ \A v \in Threads, q \in Names : v # t \/ q # p => at'[v][q] = at[v][q]
  BY <1>1, AtTyped, AtFacts
<1>3. CASE u # t
  <2>1. /\ \A q \in Names : at'[u][q] = at[u][q]
        /\ stack'[u] = stack[u]
        /\ raising'[u] = raising[u]
    BY <1>2, <1>3 DEF IInv, TypeOK
  <2>2. stack[u] \in Seq(Names)
    BY DEF IInv, TypeOK
  <2>3. \A i \in 1..Len(stack[u]) : stack[u][i] \in Names
    BY <2>2
  <2>4. Len(stack[u]) > 0 => Top(u) \in Names
    BY <2>2 DEF Top
  <2>5. Top(u)' = Top(u) /\ Len(stack'[u]) = Len(stack[u])
    BY <2>1 DEF Top
  <2>6. /\ \A i \in 1..Len(stack[u]) : at'[u][stack'[u][i]] = at[u][stack[u][i]]
        /\ raising[u] => at'[u][Top(u)] = "load"
    BY <1>1, <2>1, <2>3, <2>4 DEF StackOK
  <2>7. QED
    BY <1>1, <2>1, <2>5, <2>6 DEF StackOK
<1>4. CASE u = t
  <2>1. /\ Len(stack'[t]) = n - 1
        /\ \A i \in 1..(n - 1) : stack'[t][i] = stack[t][i]
    BY <1>1, PopFacts DEF IInv, TypeOK
  <2>2. \A i \in 1..(n - 1) : stack[t][i] \in Names /\ stack[t][i] # p
    BY <1>1 DEF StackOK
  <2>3. \A i \in 1..(n - 1) : at'[t][stack'[t][i]] = "load"
    BY <1>1, <1>2, <2>1, <2>2 DEF StackOK
  <2>4. \A i, j \in 1..(n - 1) : stack'[t][i] = stack'[t][j] => i = j
    BY <1>1, <2>1, SMTT(30) DEF StackOK
  <2>5. raising'[t] => n > 1
    BY <1>1 DEF IInv, TypeOK
  <2>6. raising'[t] => Len(stack'[t]) > 0 /\ at'[t][stack'[t][Len(stack'[t])]] = "load"
    <3>1. CASE raising'[t]
      <4>1. n - 1 \in 1..(n - 1)
        BY <1>1, <2>5, <3>1
      <4>2. at'[t][stack'[t][n - 1]] = "load"
        BY <2>3, <4>1
      <4>3. QED
        BY <1>1, <2>1, <4>1, <4>2
    <3>2. QED
      BY <3>1
  <2>7. QED
    BY <1>1, <1>4, <2>1, <2>3, <2>4, <2>6 DEF StackOK, Top
<1>5. QED
  BY <1>3, <1>4

\* The initial states satisfy IInv.
LEMMA InitInv == Init => IInv
<1> SUFFICES ASSUME Init PROVE IInv
  OBVIOUS
<1>1. TypeOK
  BY DEF Init, TypeOK, Steps
<1>2. LockHeldInside /\ EveryoneGetsTheObject
  BY NoThreadAssumption DEF Init, LockHeldInside, EveryoneGetsTheObject, Inside
<1>3. \A p \in Names : NameOK(p)
  BY DEF Init, NameOK, Fresh
<1>4. ASSUME NEW t \in Threads PROVE StackOK(t) /\ \A p \in Names : UseOK(t, p)
  <2>1. Len(stack[t]) = 0 /\ ~raising[t] /\ \A p \in Names : at[t][p] = "idle"
    BY DEF Init
  <2>2. QED
    BY <2>1 DEF StackOK, UseOK
<1>5. QED
  BY <1>1, <1>2, <1>3, <1>4 DEF IInv


\* The parts of IInv, put together again.
LEMMA Parts ==
  ASSUME TypeOK', LockHeldInside', EveryoneGetsTheObject',
         \A q \in Names : NameOK(q)',
         \A u \in Threads : StackOK(u)',
         \A u \in Threads, q \in Names : UseOK(u, q)'
  PROVE  IInv'
  BY DEF IInv

\* SetScope binds the first object to the name.
LEMMA SetScopeInv ==
  ASSUME IInv, NEW t \in Threads, NEW p \in Names, SetScope(t, p)
  PROVE  IInv'
<1> USE NoThreadAssumption
<1>1. /\ at[t][p] = "scope" /\ "fast" \in Steps
      /\ UseOK(t, p) /\ NameOK(p)
      /\ lock[p] = t
  BY DEF SetScope, On, IInv, LockHeldInside, Inside, Steps
<1>2. /\ at' \in [Threads -> [Names -> Steps]]
      /\ at'[t][p] = "fast"
      /\ \A u \in Threads, q \in Names : u # t \/ q # p => at'[u][q] = at[u][q]
  BY <1>1, AtTyped, AtFacts DEF SetScope, Goto
<1>3. TypeOK'
  BY <1>2 DEF SetScope, Goto, IInv, TypeOK, history
<1>4. \A q \in Names : q # p => SameName(q)
  BY DEF SetScope, SameName, IInv, TypeOK
<1>5. /\ NameOK(p)' /\ UseOK(t, p)'
      /\ fast[p] => fast'[p]
      /\ lock'[p] = lock[p]
      /\ result' = result
  BY <1>1, <1>2 DEF SetScope, IInv, TypeOK, NameOK, UseOK, Fresh, Done
<1>6. /\ LockHeldInside'
      /\ \A q \in Names : NameOK(q)'
      /\ \A u \in Threads, q \in Names : UseOK(u, q)'
  <2>1. lock'[p] = t <=> at'[t][p] \in Inside
    BY <1>1, <1>2, <1>5 DEF Inside
  <2>2. QED
    BY <1>1, <1>2, <1>4, <1>5, <2>1, Local
<1>7. EveryoneGetsTheObject'
  <2>1. \A q \in Names : scope[q] # 0 => scope'[q] = scope[q]
    BY <1>1 DEF SetScope, UseOK, Done, IInv, TypeOK
  <2>2. QED
    BY <2>1, EveryoneKept DEF SetScope, IInv, TypeOK, history
<1>8. \A u \in Threads : StackOK(u)'
  BY <1>1, StackGoto DEF SetScope
<1>9. QED
  BY <1>3, <1>6, <1>7, <1>8, Parts

\* SetFast makes later uses read the name from the scope.
LEMMA SetFastInv ==
  ASSUME IInv, NEW t \in Threads, NEW p \in Names, SetFast(t, p)
  PROVE  IInv'
<1> USE NoThreadAssumption
<1>1. /\ at[t][p] = "fast" /\ "clear" \in Steps
      /\ UseOK(t, p) /\ NameOK(p)
      /\ lock[p] = t
  BY DEF SetFast, On, IInv, LockHeldInside, Inside, Steps
<1>2. /\ at' \in [Threads -> [Names -> Steps]]
      /\ at'[t][p] = "clear"
      /\ \A u \in Threads, q \in Names : u # t \/ q # p => at'[u][q] = at[u][q]
  BY <1>1, AtTyped, AtFacts DEF SetFast, Goto
<1>3. TypeOK'
  BY <1>2 DEF SetFast, Goto, IInv, TypeOK, history
<1>4. \A q \in Names : q # p => SameName(q)
  BY DEF SetFast, SameName, IInv, TypeOK
<1>5. /\ NameOK(p)' /\ UseOK(t, p)'
      /\ fast[p] => fast'[p]
      /\ lock'[p] = lock[p]
      /\ result' = result
  BY <1>1, <1>2 DEF SetFast, IInv, TypeOK, NameOK, UseOK, Fresh, Done
<1>6. /\ LockHeldInside'
      /\ \A q \in Names : NameOK(q)'
      /\ \A u \in Threads, q \in Names : UseOK(u, q)'
  <2>1. lock'[p] = t <=> at'[t][p] \in Inside
    BY <1>1, <1>2, <1>5 DEF Inside
  <2>2. QED
    BY <1>1, <1>2, <1>4, <1>5, <2>1, Local
<1>7. EveryoneGetsTheObject'
  <2>1. \A q \in Names : scope[q] # 0 => scope'[q] = scope[q]
    BY <1>1 DEF SetFast, UseOK, Done, IInv, TypeOK
  <2>2. QED
    BY <2>1, EveryoneKept DEF SetFast, IInv, TypeOK, history
<1>8. \A u \in Threads : StackOK(u)'
  BY <1>1, StackGoto DEF SetFast
<1>9. QED
  BY <1>3, <1>6, <1>7, <1>8, Parts

\* ClearLoader completes the replacement of the placeholder.
LEMMA ClearLoaderInv ==
  ASSUME IInv, NEW t \in Threads, NEW p \in Names, ClearLoader(t, p)
  PROVE  IInv'
<1> USE NoThreadAssumption
<1>1. /\ at[t][p] = "clear" /\ "tid" \in Steps
      /\ UseOK(t, p) /\ NameOK(p)
      /\ lock[p] = t
  BY DEF ClearLoader, On, IInv, LockHeldInside, Inside, Steps
<1>2. /\ at' \in [Threads -> [Names -> Steps]]
      /\ at'[t][p] = "tid"
      /\ \A u \in Threads, q \in Names : u # t \/ q # p => at'[u][q] = at[u][q]
  BY <1>1, AtTyped, AtFacts DEF ClearLoader, Goto
<1>3. TypeOK'
  BY <1>2 DEF ClearLoader, Goto, IInv, TypeOK, history
<1>4. \A q \in Names : q # p => SameName(q)
  BY DEF ClearLoader, SameName, IInv, TypeOK
<1>5. /\ NameOK(p)' /\ UseOK(t, p)'
      /\ fast[p] => fast'[p]
      /\ lock'[p] = lock[p]
      /\ result' = result
  BY <1>1, <1>2 DEF ClearLoader, IInv, TypeOK, NameOK, UseOK, Fresh, Done
<1>6. /\ LockHeldInside'
      /\ \A q \in Names : NameOK(q)'
      /\ \A u \in Threads, q \in Names : UseOK(u, q)'
  <2>1. lock'[p] = t <=> at'[t][p] \in Inside
    BY <1>1, <1>2, <1>5 DEF Inside
  <2>2. QED
    BY <1>1, <1>2, <1>4, <1>5, <2>1, Local
<1>7. EveryoneGetsTheObject'
  <2>1. \A q \in Names : scope[q] # 0 => scope'[q] = scope[q]
    BY <1>1 DEF ClearLoader, UseOK, Done, IInv, TypeOK
  <2>2. QED
    BY <2>1, EveryoneKept DEF ClearLoader, IInv, TypeOK, history
<1>8. \A u \in Threads : StackOK(u)'
  BY <1>1, StackGoto DEF ClearLoader
<1>9. QED
  BY <1>3, <1>6, <1>7, <1>8, Parts

\* AppendTid only records the thread.
LEMMA AppendTidInv ==
  ASSUME IInv, NEW t \in Threads, NEW p \in Names, AppendTid(t, p)
  PROVE  IInv'
<1> USE NoThreadAssumption
<1>1. /\ at[t][p] = "tid" /\ "unlock" \in Steps
      /\ UseOK(t, p) /\ NameOK(p)
      /\ lock[p] = t
  BY DEF AppendTid, On, IInv, LockHeldInside, Inside, Steps
<1>2. /\ at' \in [Threads -> [Names -> Steps]]
      /\ at'[t][p] = "unlock"
      /\ \A u \in Threads, q \in Names : u # t \/ q # p => at'[u][q] = at[u][q]
  BY <1>1, AtTyped, AtFacts DEF AppendTid, Goto
<1>3. TypeOK'
  BY <1>2 DEF AppendTid, Goto, IInv, TypeOK, history
<1>4. \A q \in Names : q # p => SameName(q)
  BY DEF AppendTid, SameName, IInv, TypeOK
<1>5. /\ NameOK(p)' /\ UseOK(t, p)'
      /\ fast[p] => fast'[p]
      /\ lock'[p] = lock[p]
      /\ result' = result
  BY <1>1, <1>2 DEF AppendTid, IInv, TypeOK, NameOK, UseOK, Fresh, Done
<1>6. /\ LockHeldInside'
      /\ \A q \in Names : NameOK(q)'
      /\ \A u \in Threads, q \in Names : UseOK(u, q)'
  <2>1. lock'[p] = t <=> at'[t][p] \in Inside
    BY <1>1, <1>2, <1>5 DEF Inside
  <2>2. QED
    BY <1>1, <1>2, <1>4, <1>5, <2>1, Local
<1>7. EveryoneGetsTheObject'
  <2>1. \A q \in Names : scope[q] # 0 => scope'[q] = scope[q]
    BY <1>1 DEF AppendTid, UseOK, Done, IInv, TypeOK
  <2>2. QED
    BY <2>1, EveryoneKept DEF AppendTid, IInv, TypeOK, history
<1>8. \A u \in Threads : StackOK(u)'
  BY <1>1, StackGoto DEF AppendTid
<1>9. QED
  BY <1>3, <1>6, <1>7, <1>8, Parts

\* Enter reads whether _get_target has been replaced; it holds no lock.
LEMMA EnterInv ==
  ASSUME IInv, NEW t \in Threads, NEW p \in Names, Enter(t, p)
  PROVE  IInv'
<1> USE NoThreadAssumption
<1> DEFINE s == IF fast[p] THEN "known" ELSE "lock"
<1>1. /\ at[t][p] = "enter" /\ s \in Steps /\ s \notin Inside /\ s # "idle"
      /\ UseOK(t, p) /\ NameOK(p)
      /\ lock[p] # t
      /\ Goto(t, p, s)
  BY DEF Enter, On, IInv, LockHeldInside, Inside, Steps
<1>2. /\ at' \in [Threads -> [Names -> Steps]]
      /\ at'[t][p] = s
      /\ \A u \in Threads, q \in Names : u # t \/ q # p => at'[u][q] = at[u][q]
  BY <1>1, AtTyped, AtFacts DEF Goto
<1>3. TypeOK'
  BY <1>2 DEF Enter, Goto, IInv, TypeOK, shared, history
<1>4. \A q \in Names : SameName(q)
  BY DEF Enter, SameName, shared
<1>5. NameOK(p)' /\ UseOK(t, p)' /\ result' = result
  BY <1>1, <1>2 DEF Enter, shared, NameOK, UseOK, Fresh, Done
<1>6. /\ LockHeldInside'
      /\ \A q \in Names : NameOK(q)'
      /\ \A u \in Threads, q \in Names : UseOK(u, q)'
  <2>1. /\ lock'[p] = t <=> at'[t][p] \in Inside
        /\ fast[p] => fast'[p]
        /\ SameName(p)
        /\ lock[p] \in {t, NoThread} => lock'[p] \in {t, NoThread}
    BY <1>1, <1>2, <1>4 DEF SameName
  <2>2. QED
    BY <1>1, <1>2, <1>4, <1>5, <2>1, Local
<1>7. EveryoneGetsTheObject'
  BY EveryoneKept DEF Enter, shared, history, IInv, TypeOK
<1>8. \A u \in Threads : StackOK(u)'
  BY <1>1, StackGoto DEF Enter
<1>9. QED
  BY <1>3, <1>6, <1>7, <1>8, Parts

\* Acquire finds nothing loaded, or everything replaced: a free lock says so.
LEMMA AcquireInv ==
  ASSUME IInv, NEW t \in Threads, NEW p \in Names, Acquire(t, p)
  PROVE  IInv'
<1> USE NoThreadAssumption
<1> DEFINE s == IF loader[p] THEN "load" ELSE "tid"
<1>1. /\ at[t][p] = "lock" /\ s \in Steps /\ s \in Inside /\ s # "idle"
      /\ UseOK(t, p) /\ NameOK(p)
      /\ lock[p] = NoThread /\ lock'[p] = t
      /\ Goto(t, p, s)
  BY DEF Acquire, On, IInv, TypeOK, Inside, Steps
<1>2. /\ at' \in [Threads -> [Names -> Steps]]
      /\ at'[t][p] = s
      /\ \A u \in Threads, q \in Names : u # t \/ q # p => at'[u][q] = at[u][q]
  BY <1>1, AtTyped, AtFacts DEF Goto
<1>r. /\ result' \in [Threads -> [Names -> Nat]]
      /\ ~loader[p] => result'[t][p] = scope[p]
      /\ \A u \in Threads, q \in Names :
           u # t \/ q # p => result'[u][q] = result[u][q]
  <2>1. CASE loader[p]
    BY <2>1 DEF Acquire, IInv, TypeOK
  <2>2. CASE ~loader[p]
    <3>1. /\ scope[p] \in Nat /\ result \in [Threads -> [Names -> Nat]]
          /\ result' = [result EXCEPT ![t][p] = scope[p]]
      BY <2>2 DEF Acquire, IInv, TypeOK
    <3>2. QED
      BY <2>2, <3>1, ResultFacts
  <2>3. QED
    BY <2>1, <2>2
<1>3. TypeOK'
  <2>1. lock' \in [Names -> Threads \cup {NoThread}]
    BY DEF Acquire, IInv, TypeOK
  <2>2. QED
    BY <1>1, <1>2, <1>r, <2>1 DEF Acquire, Goto, IInv, TypeOK, history
<1>4. \A q \in Names : q # p => SameName(q)
  BY DEF Acquire, SameName, IInv, TypeOK
<1>5. NameOK(p)' /\ UseOK(t, p)'
  <2>1. NameOK(p)'
    BY <1>1 DEF Acquire, NameOK
  <2>2. Fresh(p)' = Fresh(p) /\ Done(p)' = Done(p)
    BY DEF Acquire, Fresh, Done
  <2>3. CASE loader[p]
    <3>1. Fresh(p) /\ at'[t][p] = "load"
      BY <1>1, <1>2, <2>3 DEF NameOK, Done
    <3>2. QED
      BY <2>1, <2>2, <3>1 DEF UseOK
  <2>4. CASE ~loader[p]
    <3>1. Done(p) /\ at'[t][p] = "tid" /\ result'[t][p] = 1
      BY <1>1, <1>2, <1>r, <2>4 DEF NameOK, Fresh, Done
    <3>2. QED
      BY <2>1, <2>2, <3>1 DEF UseOK
  <2>5. QED
    BY <2>3, <2>4
<1>6. /\ LockHeldInside'
      /\ \A q \in Names : NameOK(q)'
      /\ \A u \in Threads, q \in Names : UseOK(u, q)'
  <2>1. /\ lock'[p] = t <=> at'[t][p] \in Inside
        /\ fast[p] => fast'[p]
        /\ lock[p] \notin {t, NoThread} => SameName(p)
        /\ lock[p] \in {t, NoThread} => lock'[p] \in {t, NoThread}
    BY <1>1, <1>2 DEF Acquire
  <2>2. QED
    BY <1>2, <1>r, <1>4, <1>5, <2>1, Local
<1>7. EveryoneGetsTheObject'
  BY EveryoneKept DEF Acquire, history, IInv, TypeOK
<1>8. \A u \in Threads : StackOK(u)'
  BY <1>1, StackGoto DEF Acquire
<1>9. QED
  BY <1>3, <1>6, <1>7, <1>8, Parts

\* Load makes the first object: nothing was loaded when the lock was taken.
LEMMA LoadInv ==
  ASSUME IInv, NEW t \in Threads, NEW p \in Names, Load(t, p)
  PROVE  IInv'
<1> USE NoThreadAssumption
<1>1. /\ at[t][p] = "load" /\ "scope" \in Steps
      /\ UseOK(t, p) /\ NameOK(p) /\ Fresh(p)
      /\ lock[p] = t
  BY DEF Load, On, IInv, LockHeldInside, Inside, Steps, UseOK
<1>2. /\ at' \in [Threads -> [Names -> Steps]]
      /\ at'[t][p] = "scope"
      /\ \A u \in Threads, q \in Names : u # t \/ q # p => at'[u][q] = at[u][q]
  BY <1>1, AtTyped, AtFacts DEF Load, Goto
<1>r. /\ result' \in [Threads -> [Names -> Nat]]
      /\ result'[t][p] = 1
      /\ \A u \in Threads, q \in Names :
           u # t \/ q # p => result'[u][q] = result[u][q]
  <2>1. loads[p] + 1 = 1 /\ 1 \in Nat
    BY <1>1 DEF Fresh
  <2>2. result \in [Threads -> [Names -> Nat]] /\ result' = [result EXCEPT ![t][p] = 1]
    BY <2>1 DEF Load, IInv, TypeOK
  <2>3. QED
    BY <2>1, <2>2, ResultFacts
<1>3. TypeOK'
  BY <1>2, <1>r DEF Load, Goto, IInv, TypeOK, history
<1>4. \A q \in Names : q # p => SameName(q)
  BY DEF Load, SameName, IInv, TypeOK
<1>5. /\ NameOK(p)' /\ UseOK(t, p)'
      /\ lock' = lock /\ fast' = fast
  BY <1>1, <1>2, <1>r DEF Load, IInv, TypeOK, NameOK, UseOK, Fresh, Done
<1>6. /\ LockHeldInside'
      /\ \A q \in Names : NameOK(q)'
      /\ \A u \in Threads, q \in Names : UseOK(u, q)'
  <2>1. lock'[p] = t <=> at'[t][p] \in Inside
    BY <1>1, <1>2, <1>5 DEF Inside
  <2>2. QED
    BY <1>1, <1>2, <1>r, <1>4, <1>5, <2>1, Local
<1>7. EveryoneGetsTheObject'
  BY EveryoneKept DEF Load, history, IInv, TypeOK
<1>8. \A u \in Threads : StackOK(u)'
  BY <1>1, StackGoto DEF Load
<1>9. QED
  BY <1>3, <1>6, <1>7, <1>8, Parts

\* LoadRaises leaves the placeholder as it was before the load.
LEMMA LoadRaisesInv ==
  ASSUME IInv, NEW t \in Threads, NEW p \in Names, LoadRaises(t, p)
  PROVE  IInv'
<1> USE NoThreadAssumption
<1>a. Top(t) = p /\ at[t][p] = "load" /\ stack[t] # <<>> /\ ~raising[t]
  BY DEF LoadRaises, On
<1>1. /\ UseOK(t, p) /\ NameOK(p) /\ "idle" \in Steps
      /\ lock[p] = t
  BY <1>a DEF IInv, LockHeldInside, Inside, Steps
<1>2. /\ at' \in [Threads -> [Names -> Steps]]
      /\ at'[t][p] = "idle"
      /\ \A u \in Threads, q \in Names : u # t \/ q # p => at'[u][q] = at[u][q]
  BY <1>1, AtTyped, AtFacts DEF LoadRaises, Leave
<1>p. /\ stack' = [stack EXCEPT ![t] = SubSeq(@, 1, Len(@) - 1)]
      /\ at' = [at EXCEPT ![t][p] = "idle"]
  BY DEF LoadRaises, Leave, IInv, TypeOK
<1>3. TypeOK'
  <2>1. stack' \in [Threads -> Seq(Names)]
    <3>1. stack[t] \in Seq(Names) /\ SubSeq(stack[t], 1, Len(stack[t]) - 1) \in Seq(Names)
      BY <1>a, PopFacts DEF IInv, TypeOK
    <3>2. QED
      BY <1>p, <3>1 DEF IInv, TypeOK
  <2>2. raising' \in [Threads -> BOOLEAN]
    <3>1. (Len(stack[t]) > 1) \in BOOLEAN
      OBVIOUS
    <3>2. QED
      BY <3>1 DEF LoadRaises, Leave, IInv, TypeOK
  <2>3. QED
    BY <1>2, <2>1, <2>2 DEF LoadRaises, Leave, IInv, TypeOK, shared, history
<1>4. \A q \in Names : q # p => SameName(q)
  BY DEF LoadRaises, SameName, IInv, TypeOK, shared
<1>5. /\ NameOK(p)' /\ UseOK(t, p)'
      /\ fast' = fast /\ result' = result /\ scope' = scope
  BY <1>a, <1>1, <1>2 DEF LoadRaises, shared, IInv, TypeOK, NameOK, UseOK, Fresh, Done
<1>6. /\ LockHeldInside'
      /\ \A q \in Names : NameOK(q)'
      /\ \A u \in Threads, q \in Names : UseOK(u, q)'
  <2>1. /\ lock'[p] = t <=> at'[t][p] \in Inside
        /\ lock[p] \notin {t, NoThread} => SameName(p)
        /\ lock[p] \in {t, NoThread} => lock'[p] \in {t, NoThread}
    BY <1>1, <1>2 DEF LoadRaises, Inside, IInv, TypeOK, shared, SameName
  <2>2. QED
    BY <1>2, <1>4, <1>5, <2>1, Local
<1>7. EveryoneGetsTheObject'
  BY <1>5, EveryoneKept DEF LoadRaises, history, IInv, TypeOK
<1>8. \A u \in Threads : StackOK(u)'
  <2>1. \/ ~raising[t] /\ UNCHANGED raising
        \/ raising' = [raising EXCEPT ![t] = Len(stack[t]) > 1]
    BY <1>a DEF LoadRaises, Leave
  <2>2. QED
    BY <1>a, <1>p, <2>1, StackPop
<1>9. QED
  BY <1>3, <1>6, <1>7, <1>8, Parts

\* Unwind leaves every placeholder it passes as it was before its load.
LEMMA UnwindInv ==
  ASSUME IInv, NEW t \in Threads, NEW p \in Names, Unwind(t, p)
  PROVE  IInv'
<1> USE NoThreadAssumption
<1>a. Len(stack[t]) > 0 /\ Top(t) = p /\ at[t][p] = "load" /\ stack[t] # <<>>
  <2>1. Len(stack[t]) > 0 /\ Top(t) = p /\ at[t][p] = "load"
    BY DEF Unwind, IInv, StackOK
  <2>2. QED
    BY <2>1
<1>1. /\ UseOK(t, p) /\ NameOK(p) /\ "idle" \in Steps
      /\ lock[p] = t
  BY <1>a DEF IInv, LockHeldInside, Inside, Steps
<1>2. /\ at' \in [Threads -> [Names -> Steps]]
      /\ at'[t][p] = "idle"
      /\ \A u \in Threads, q \in Names : u # t \/ q # p => at'[u][q] = at[u][q]
  BY <1>1, AtTyped, AtFacts DEF Unwind, Leave
<1>p. /\ stack' = [stack EXCEPT ![t] = SubSeq(@, 1, Len(@) - 1)]
      /\ at' = [at EXCEPT ![t][p] = "idle"]
  BY DEF Unwind, Leave, IInv, TypeOK
<1>3. TypeOK'
  <2>1. stack' \in [Threads -> Seq(Names)]
    <3>1. stack[t] \in Seq(Names) /\ SubSeq(stack[t], 1, Len(stack[t]) - 1) \in Seq(Names)
      BY <1>a, PopFacts DEF IInv, TypeOK
    <3>2. QED
      BY <1>p, <3>1 DEF IInv, TypeOK
  <2>2. raising' \in [Threads -> BOOLEAN]
    <3>1. (Len(stack[t]) > 1) \in BOOLEAN
      OBVIOUS
    <3>2. QED
      BY <3>1 DEF Unwind, Leave, IInv, TypeOK
  <2>3. QED
    BY <1>2, <2>1, <2>2 DEF Unwind, Leave, IInv, TypeOK, shared, history
<1>4. \A q \in Names : q # p => SameName(q)
  BY DEF Unwind, SameName, IInv, TypeOK, shared
<1>5. /\ NameOK(p)' /\ UseOK(t, p)'
      /\ fast' = fast /\ result' = result /\ scope' = scope
  BY <1>a, <1>1, <1>2 DEF Unwind, shared, IInv, TypeOK, NameOK, UseOK, Fresh, Done
<1>6. /\ LockHeldInside'
      /\ \A q \in Names : NameOK(q)'
      /\ \A u \in Threads, q \in Names : UseOK(u, q)'
  <2>1. /\ lock'[p] = t <=> at'[t][p] \in Inside
        /\ lock[p] \notin {t, NoThread} => SameName(p)
        /\ lock[p] \in {t, NoThread} => lock'[p] \in {t, NoThread}
    BY <1>1, <1>2 DEF Unwind, Inside, IInv, TypeOK, shared, SameName
  <2>2. QED
    BY <1>2, <1>4, <1>5, <2>1, Local
<1>7. EveryoneGetsTheObject'
  BY <1>5, EveryoneKept DEF Unwind, history, IInv, TypeOK
<1>8. \A u \in Threads : StackOK(u)'
  <2>1. \/ ~raising[t] /\ UNCHANGED raising
        \/ raising' = [raising EXCEPT ![t] = Len(stack[t]) > 1]
    BY <1>a DEF Unwind, Leave
  <2>2. QED
    BY <1>a, <1>p, <2>1, StackPop
<1>9. QED
  BY <1>3, <1>6, <1>7, <1>8, Parts

\* Unlock gives the object that was bound to the name.
LEMMA UnlockInv ==
  ASSUME IInv, NEW t \in Threads, NEW p \in Names, Unlock(t, p)
  PROVE  IInv'
<1> USE NoThreadAssumption
<1>a. Top(t) = p /\ at[t][p] = "unlock" /\ stack[t] # <<>> /\ ~raising[t]
  BY DEF Unlock, On
<1>1. /\ UseOK(t, p) /\ NameOK(p) /\ "idle" \in Steps
      /\ lock[p] = t
  BY <1>a DEF IInv, LockHeldInside, Inside, Steps
<1>p. /\ stack' = [stack EXCEPT ![t] = SubSeq(@, 1, Len(@) - 1)]
      /\ at' = [at EXCEPT ![t][p] = "idle"]
  BY DEF Unlock, Return
<1>2. /\ at' \in [Threads -> [Names -> Steps]]
      /\ at'[t][p] = "idle"
      /\ \A u \in Threads, q \in Names : u # t \/ q # p => at'[u][q] = at[u][q]
  BY <1>1, <1>p, AtTyped, AtFacts
<1>3. TypeOK'
  <2>1. stack' \in [Threads -> Seq(Names)]
    <3>1. stack[t] \in Seq(Names) /\ SubSeq(stack[t], 1, Len(stack[t]) - 1) \in Seq(Names)
      BY <1>a, PopFacts DEF IInv, TypeOK
    <3>2. QED
      BY <1>p, <3>1 DEF IInv, TypeOK
  <2>2. todo' \in [Threads -> [Names -> SUBSET Names]]
    <3>1. todo \in [Threads -> [Names -> SUBSET Names]]
      BY DEF IInv, TypeOK
    <3>2. todo' = todo \/ \E q : todo' = [todo EXCEPT ![t][q] = @ \ {p}]
      BY Zenon DEF Unlock, Return
    <3>3. QED
      BY <3>1, <3>2, TodoFacts
  <2>3. obtained' \in [Threads -> SUBSET (Names \X Nat)]
    <3>1. result[t][p] \in Nat
      BY DEF IInv, TypeOK
    <3>2. <<p, result[t][p]>> \in Names \X Nat
      BY <3>1
    <3>3. QED
      BY <3>2 DEF Unlock, Return, IInv, TypeOK
  <2>4. QED
    BY <1>2, <2>1, <2>2, <2>3 DEF Unlock, IInv, TypeOK, shared
<1>4. \A q \in Names : q # p => SameName(q)
  BY DEF Unlock, SameName, IInv, TypeOK, shared
<1>5. /\ NameOK(p)' /\ UseOK(t, p)'
      /\ fast' = fast /\ result' = result /\ scope' = scope
  BY <1>a, <1>1, <1>2 DEF Unlock, shared, IInv, TypeOK, NameOK, UseOK, Fresh, Done
<1>6. /\ LockHeldInside'
      /\ \A q \in Names : NameOK(q)'
      /\ \A u \in Threads, q \in Names : UseOK(u, q)'
  <2>1. /\ lock'[p] = t <=> at'[t][p] \in Inside
        /\ lock[p] \notin {t, NoThread} => SameName(p)
        /\ lock[p] \in {t, NoThread} => lock'[p] \in {t, NoThread}
    BY <1>1, <1>2 DEF Unlock, Inside, IInv, TypeOK, shared, SameName
  <2>2. QED
    BY <1>2, <1>4, <1>5, <2>1, Local
<1>7. EveryoneGetsTheObject'
  <2>1. result[t][p] = scope'[p] /\ scope'[p] # 0
    BY <1>a, <1>1, <1>5 DEF UseOK, NameOK, Done
  <2>2. obtained' = [obtained EXCEPT ![t] = @ \cup {<<p, scope'[p]>>}]
    BY <2>1 DEF Unlock, Return
  <2>3. QED
    BY <1>5, <2>1, <2>2, EveryoneKept DEF IInv, TypeOK
<1>8. \A u \in Threads : StackOK(u)'
  <2>1. \/ ~raising[t] /\ UNCHANGED raising
        \/ raising' = [raising EXCEPT ![t] = Len(stack[t]) > 1]
    BY <1>a DEF Unlock, Return
  <2>2. QED
    BY <1>a, <1>p, <2>1, StackPop
<1>9. QED
  BY <1>3, <1>6, <1>7, <1>8, Parts

\* Refuse gives nothing and changes nothing that is shared.
LEMMA RefuseInv ==
  ASSUME IInv, NEW t \in Threads, NEW p \in Names, Refuse(t, p)
  PROVE  IInv'
<1> USE NoThreadAssumption
<1>a. Top(t) = p /\ at[t][p] = "known" /\ stack[t] # <<>> /\ ~raising[t]
  BY DEF Refuse, On
<1>1. /\ UseOK(t, p) /\ NameOK(p) /\ "idle" \in Steps
      /\ lock[p] # t
  BY <1>a DEF IInv, LockHeldInside, Inside, Steps
<1>2. /\ at' \in [Threads -> [Names -> Steps]]
      /\ at'[t][p] = "idle"
      /\ \A u \in Threads, q \in Names : u # t \/ q # p => at'[u][q] = at[u][q]
  BY <1>1, AtTyped, AtFacts DEF Refuse, Leave
<1>p. /\ stack' = [stack EXCEPT ![t] = SubSeq(@, 1, Len(@) - 1)]
      /\ at' = [at EXCEPT ![t][p] = "idle"]
  BY DEF Refuse, Leave, IInv, TypeOK
<1>3. TypeOK'
  <2>1. stack' \in [Threads -> Seq(Names)]
    <3>1. stack[t] \in Seq(Names) /\ SubSeq(stack[t], 1, Len(stack[t]) - 1) \in Seq(Names)
      BY <1>a, PopFacts DEF IInv, TypeOK
    <3>2. QED
      BY <1>p, <3>1 DEF IInv, TypeOK
  <2>2. raising' \in [Threads -> BOOLEAN]
    <3>1. (Len(stack[t]) > 1) \in BOOLEAN
      OBVIOUS
    <3>2. QED
      BY <3>1 DEF Refuse, Leave, IInv, TypeOK
  <2>3. QED
    BY <1>2, <2>1, <2>2, SMTT(30) DEF Refuse, Leave, IInv, TypeOK, shared, history
<1>4. \A q \in Names : q # p => SameName(q)
  BY DEF Refuse, SameName, IInv, TypeOK, shared
<1>5. /\ NameOK(p)' /\ UseOK(t, p)'
      /\ fast' = fast /\ result' = result /\ scope' = scope
  BY <1>a, <1>1, <1>2 DEF Refuse, shared, IInv, TypeOK, NameOK, UseOK, Fresh, Done
<1>6. /\ LockHeldInside'
      /\ \A q \in Names : NameOK(q)'
      /\ \A u \in Threads, q \in Names : UseOK(u, q)'
  <2>1. /\ lock'[p] = t <=> at'[t][p] \in Inside
        /\ lock[p] \notin {t, NoThread} => SameName(p)
        /\ lock[p] \in {t, NoThread} => lock'[p] \in {t, NoThread}
    BY <1>1, <1>2 DEF Refuse, Inside, IInv, TypeOK, shared, SameName
  <2>2. QED
    BY <1>2, <1>4, <1>5, <2>1, Local
<1>7. EveryoneGetsTheObject'
  BY <1>5, EveryoneKept DEF Refuse, history, IInv, TypeOK
<1>8. \A u \in Threads : StackOK(u)'
  <2>1. \/ ~raising[t] /\ UNCHANGED raising
        \/ raising' = [raising EXCEPT ![t] = Len(stack[t]) > 1]
    BY <1>a DEF Refuse, Leave
  <2>2. QED
    BY <1>a, <1>p, <2>1, StackPop
<1>9. QED
  BY <1>3, <1>6, <1>7, <1>8, Parts

\* ReadKnown gives what the name is bound to, which is no longer the placeholder.
LEMMA ReadKnownInv ==
  ASSUME IInv, NEW t \in Threads, NEW p \in Names, ReadKnown(t, p)
  PROVE  IInv'
<1> USE NoThreadAssumption
<1>a. Top(t) = p /\ at[t][p] = "known" /\ stack[t] # <<>> /\ ~raising[t]
  BY DEF ReadKnown, On
<1>1. /\ UseOK(t, p) /\ NameOK(p) /\ "idle" \in Steps
      /\ lock[p] # t
  BY <1>a DEF IInv, LockHeldInside, Inside, Steps
<1>p. /\ stack' = [stack EXCEPT ![t] = SubSeq(@, 1, Len(@) - 1)]
      /\ at' = [at EXCEPT ![t][p] = "idle"]
  BY DEF ReadKnown, Return
<1>2. /\ at' \in [Threads -> [Names -> Steps]]
      /\ at'[t][p] = "idle"
      /\ \A u \in Threads, q \in Names : u # t \/ q # p => at'[u][q] = at[u][q]
  BY <1>1, <1>p, AtTyped, AtFacts
<1>3. TypeOK'
  <2>1. stack' \in [Threads -> Seq(Names)]
    <3>1. stack[t] \in Seq(Names) /\ SubSeq(stack[t], 1, Len(stack[t]) - 1) \in Seq(Names)
      BY <1>a, PopFacts DEF IInv, TypeOK
    <3>2. QED
      BY <1>p, <3>1 DEF IInv, TypeOK
  <2>2. todo' \in [Threads -> [Names -> SUBSET Names]]
    <3>1. todo \in [Threads -> [Names -> SUBSET Names]]
      BY DEF IInv, TypeOK
    <3>2. todo' = todo \/ \E q : todo' = [todo EXCEPT ![t][q] = @ \ {p}]
      BY Zenon DEF ReadKnown, Return
    <3>3. QED
      BY <3>1, <3>2, TodoFacts
  <2>3. obtained' \in [Threads -> SUBSET (Names \X Nat)]
    <3>1. scope[p] \in Nat
      BY DEF IInv, TypeOK
    <3>2. <<p, scope[p]>> \in Names \X Nat
      BY <3>1
    <3>3. QED
      BY <3>2 DEF ReadKnown, Return, IInv, TypeOK
  <2>4. QED
    BY <1>2, <2>1, <2>2, <2>3 DEF ReadKnown, IInv, TypeOK, shared
<1>4. \A q \in Names : q # p => SameName(q)
  BY DEF ReadKnown, SameName, IInv, TypeOK, shared
<1>5. /\ NameOK(p)' /\ UseOK(t, p)'
      /\ fast' = fast /\ result' = result /\ scope' = scope
  BY <1>a, <1>1, <1>2 DEF ReadKnown, shared, IInv, TypeOK, NameOK, UseOK, Fresh, Done
<1>6. /\ LockHeldInside'
      /\ \A q \in Names : NameOK(q)'
      /\ \A u \in Threads, q \in Names : UseOK(u, q)'
  <2>1. /\ lock'[p] = t <=> at'[t][p] \in Inside
        /\ lock[p] \notin {t, NoThread} => SameName(p)
        /\ lock[p] \in {t, NoThread} => lock'[p] \in {t, NoThread}
    BY <1>1, <1>2 DEF ReadKnown, Inside, IInv, TypeOK, shared, SameName
  <2>2. QED
    BY <1>2, <1>4, <1>5, <2>1, Local
<1>7. EveryoneGetsTheObject'
  <2>1. scope[p] = scope'[p] /\ scope'[p] # 0
    BY <1>a, <1>1, <1>5 DEF UseOK, NameOK, Done
  <2>2. obtained' = [obtained EXCEPT ![t] = @ \cup {<<p, scope'[p]>>}]
    BY <2>1 DEF ReadKnown, Return
  <2>3. QED
    BY <1>5, <2>1, <2>2, EveryoneKept DEF IInv, TypeOK
<1>8. \A u \in Threads : StackOK(u)'
  <2>1. \/ ~raising[t] /\ UNCHANGED raising
        \/ raising' = [raising EXCEPT ![t] = Len(stack[t]) > 1]
    BY <1>a DEF ReadKnown, Return
  <2>2. QED
    BY <1>a, <1>p, <2>1, StackPop
<1>9. QED
  BY <1>3, <1>6, <1>7, <1>8, Parts

\* UsePlaceholder starts a use and holds no lock yet.
LEMMA UsePlaceholderInv ==
  ASSUME IInv, NEW t \in Threads, NEW p \in Names, UsePlaceholder(t, p)
  PROVE  IInv'
<1> USE NoThreadAssumption
<1>1. /\ Push(t, p) /\ at[t][p] = "idle" /\ "enter" \in Steps /\ ~raising[t]
      /\ stack[t] # <<>> => at[t][Top(t)] = "load"
      /\ UseOK(t, p) /\ NameOK(p) /\ lock[p] # t
  BY DEF UsePlaceholder, Push, FromOutside, FromLoader, IInv, LockHeldInside, Inside, Steps
<1>2. /\ at' \in [Threads -> [Names -> Steps]]
      /\ at'[t][p] = "enter"
      /\ \A u \in Threads, q \in Names : u # t \/ q # p => at'[u][q] = at[u][q]
  BY <1>1, AtTyped, AtFacts DEF Push
<1>3. TypeOK'
  <2>1. stack' \in [Threads -> Seq(Names)]
    <3>1. stack[t] \in Seq(Names) /\ Append(stack[t], p) \in Seq(Names)
      BY PushFacts DEF IInv, TypeOK
    <3>2. QED
      BY <1>1, <3>1 DEF Push, IInv, TypeOK
  <2>2. todo' \in [Threads -> [Names -> SUBSET Names]]
    BY <1>1, DepsAssumption DEF Push, IInv, TypeOK
  <2>3. uses' \in [Threads -> Nat]
    <3>1. uses' = uses \/ uses' = [uses EXCEPT ![t] = @ + 1]
      BY DEF UsePlaceholder, FromOutside, FromLoader
    <3>2. uses \in [Threads -> Nat]
      BY DEF IInv, TypeOK
    <3>3. QED
      BY <3>1, <3>2
  <2>4. QED
    BY <1>2, <2>1, <2>2, <2>3 DEF UsePlaceholder, IInv, TypeOK, shared, history
<1>4. \A q \in Names : SameName(q)
  BY DEF UsePlaceholder, SameName, shared
<1>5. NameOK(p)' /\ UseOK(t, p)' /\ result' = result
  BY <1>1, <1>2 DEF UsePlaceholder, shared, NameOK, UseOK, Fresh, Done
<1>6. /\ LockHeldInside'
      /\ \A q \in Names : NameOK(q)'
      /\ \A u \in Threads, q \in Names : UseOK(u, q)'
  <2>1. /\ lock'[p] = t <=> at'[t][p] \in Inside
        /\ fast[p] => fast'[p]
        /\ SameName(p)
        /\ lock[p] \in {t, NoThread} => lock'[p] \in {t, NoThread}
    BY <1>1, <1>2, <1>4 DEF SameName, Inside
  <2>2. QED
    BY <1>2, <1>4, <1>5, <2>1, Local
<1>7. EveryoneGetsTheObject'
  BY EveryoneKept DEF UsePlaceholder, shared, history, IInv, TypeOK
<1>8. \A u \in Threads : StackOK(u)'
  BY <1>1, StackPush DEF UsePlaceholder
<1>9. QED
  BY <1>3, <1>6, <1>7, <1>8, Parts

\* UseAlias starts a use as UsePlaceholder does.
LEMMA UseAliasInv ==
  ASSUME IInv, NEW t \in Threads, NEW p \in Names, UseAlias(t, p)
  PROVE  IInv'
<1> USE NoThreadAssumption
<1>1. /\ Push(t, p) /\ at[t][p] = "idle" /\ "enter" \in Steps /\ ~raising[t]
      /\ stack[t] # <<>> => at[t][Top(t)] = "load"
      /\ UseOK(t, p) /\ NameOK(p) /\ lock[p] # t
  BY DEF UseAlias, Push, FromOutside, FromLoader, IInv, LockHeldInside, Inside, Steps
<1>2. /\ at' \in [Threads -> [Names -> Steps]]
      /\ at'[t][p] = "enter"
      /\ \A u \in Threads, q \in Names : u # t \/ q # p => at'[u][q] = at[u][q]
  BY <1>1, AtTyped, AtFacts DEF Push
<1>3. TypeOK'
  <2>1. stack' \in [Threads -> Seq(Names)]
    <3>1. stack[t] \in Seq(Names) /\ Append(stack[t], p) \in Seq(Names)
      BY PushFacts DEF IInv, TypeOK
    <3>2. QED
      BY <1>1, <3>1 DEF Push, IInv, TypeOK
  <2>2. todo' \in [Threads -> [Names -> SUBSET Names]]
    BY <1>1, DepsAssumption DEF Push, IInv, TypeOK
  <2>3. uses' \in [Threads -> Nat]
    BY DEF UseAlias, FromOutside, FromLoader, IInv, TypeOK
  <2>4. QED
    BY <1>2, <2>1, <2>2, <2>3 DEF UseAlias, IInv, TypeOK, shared, history
<1>4. \A q \in Names : SameName(q)
  BY DEF UseAlias, SameName, shared
<1>5. NameOK(p)' /\ UseOK(t, p)' /\ result' = result
  BY <1>1, <1>2 DEF UseAlias, shared, NameOK, UseOK, Fresh, Done
<1>6. /\ LockHeldInside'
      /\ \A q \in Names : NameOK(q)'
      /\ \A u \in Threads, q \in Names : UseOK(u, q)'
  <2>1. /\ lock'[p] = t <=> at'[t][p] \in Inside
        /\ fast[p] => fast'[p]
        /\ SameName(p)
        /\ lock[p] \in {t, NoThread} => lock'[p] \in {t, NoThread}
    BY <1>1, <1>2, <1>4 DEF SameName, Inside
  <2>2. QED
    BY <1>2, <1>4, <1>5, <2>1, Local
<1>7. EveryoneGetsTheObject'
  BY EveryoneKept DEF UseAlias, shared, history, IInv, TypeOK
<1>8. \A u \in Threads : StackOK(u)'
  BY <1>1, StackPush DEF UseAlias
<1>9. QED
  BY <1>3, <1>6, <1>7, <1>8, Parts

\* UseObject gives what the name is bound to.
LEMMA UseObjectInv ==
  ASSUME IInv, NEW t \in Threads, NEW p \in Names, UseObject(t, p)
  PROVE  IInv'
<1>1. TypeOK'
  <2>1. todo' \in [Threads -> [Names -> SUBSET Names]]
    <3>1. todo \in [Threads -> [Names -> SUBSET Names]]
      BY DEF IInv, TypeOK
    <3>2. todo' = todo \/ \E q : todo' = [todo EXCEPT ![t][q] = @ \ {p}]
      BY Zenon DEF UseObject
    <3>3. QED
      BY <3>1, <3>2, TodoFacts
  <2>2. obtained' \in [Threads -> SUBSET (Names \X Nat)]
    <3>1. <<p, scope[p]>> \in Names \X Nat
      BY DEF IInv, TypeOK
    <3>2. QED
      BY <3>1 DEF UseObject, IInv, TypeOK
  <2>3. uses' \in [Threads -> Nat]
    <3>1. uses' = uses \/ uses' = [uses EXCEPT ![t] = @ + 1]
      BY DEF UseObject, FromOutside, FromLoader
    <3>2. uses \in [Threads -> Nat]
      BY DEF IInv, TypeOK
    <3>3. QED
      BY <3>1, <3>2
  <2>4. QED
    BY <2>1, <2>2, <2>3 DEF UseObject, IInv, TypeOK, shared
<1>2. LockHeldInside'
  BY DEF UseObject, shared, IInv, LockHeldInside
<1>3. \A q \in Names : NameOK(q)'
  BY DEF UseObject, shared, IInv, NameOK, Fresh, Done
<1>4. \A u \in Threads, q \in Names : UseOK(u, q)'
  BY DEF UseObject, shared, IInv, UseOK, Fresh, Done
<1>5. \A u \in Threads : StackOK(u)'
  BY DEF UseObject, IInv, StackOK, Top
<1>6. EveryoneGetsTheObject'
  <2>1. scope' = scope /\ scope'[p] # 0
    BY DEF UseObject, shared
  <2>2. obtained' = [obtained EXCEPT ![t] = @ \cup {<<p, scope'[p]>>}]
    BY <2>1 DEF UseObject
  <2>3. QED
    BY <2>1, <2>2, EveryoneKept DEF IInv, TypeOK
<1>7. QED
  BY <1>1, <1>2, <1>3, <1>4, <1>5, <1>6, Parts

\* A step that changes nothing preserves everything.
LEMMA StutterInv == IInv /\ UNCHANGED vars => IInv'
<1> SUFFICES ASSUME IInv, UNCHANGED vars PROVE IInv'
  OBVIOUS
<1>1. TypeOK' /\ LockHeldInside' /\ EveryoneGetsTheObject'
  BY DEF vars, IInv, TypeOK, LockHeldInside, EveryoneGetsTheObject
<1>2. \A q \in Names : NameOK(q)'
  BY DEF vars, IInv, NameOK, Fresh, Done
<1>3. \A u \in Threads : StackOK(u)'
  BY DEF vars, IInv, StackOK, Top
<1>4. \A u \in Threads, q \in Names : UseOK(u, q)'
  BY DEF vars, IInv, UseOK, Fresh, Done
<1>5. QED
  BY <1>1, <1>2, <1>3, <1>4, Parts

\* Every step of the program preserves IInv.
LEMMA NextInv == IInv /\ [Next]_vars => IInv'
<1> SUFFICES ASSUME IInv, [Next]_vars PROVE IInv'
  OBVIOUS
<1>1. CASE Next
  <2>1. PICK t \in Threads, p \in Names : Use(t, p) \/ Step(t, p)
    BY <1>1 DEF Next
  <2>2. CASE UsePlaceholder(t, p)
    BY <2>2, UsePlaceholderInv
  <2>3. CASE UseObject(t, p)
    BY <2>3, UseObjectInv
  <2>4. CASE UseAlias(t, p)
    BY <2>4, UseAliasInv
  <2>5. CASE Enter(t, p)
    BY <2>5, EnterInv
  <2>6. CASE Acquire(t, p)
    BY <2>6, AcquireInv
  <2>7. CASE Load(t, p)
    BY <2>7, LoadInv
  <2>8. CASE LoadRaises(t, p)
    BY <2>8, LoadRaisesInv
  <2>9. CASE Unwind(t, p)
    BY <2>9, UnwindInv
  <2>10. CASE SetScope(t, p)
    BY <2>10, SetScopeInv
  <2>11. CASE SetFast(t, p)
    BY <2>11, SetFastInv
  <2>12. CASE ClearLoader(t, p)
    BY <2>12, ClearLoaderInv
  <2>13. CASE AppendTid(t, p)
    BY <2>13, AppendTidInv
  <2>14. CASE Unlock(t, p)
    BY <2>14, UnlockInv
  <2>15. CASE Refuse(t, p)
    BY <2>15, RefuseInv
  <2>16. CASE ReadKnown(t, p)
    BY <2>16, ReadKnownInv
  <2>30. QED
    BY <2>1, <2>2, <2>3, <2>4, <2>5, <2>6, <2>7, <2>8, <2>9, <2>10, <2>11, <2>12, <2>13, <2>14, <2>15, <2>16 DEF Use, Step
<1>2. CASE UNCHANGED vars
  BY <1>2, StutterInv
<1>3. QED
  BY <1>1, <1>2

\* The inductive invariant of the placeholder: at each step of a use, what its
\* thread relies on is so, and a free lock means untouched or entirely replaced.
THEOREM Inductive == Spec => []IInv
  BY InitInv, NextInv, PTL DEF Spec

\* Type correctness of the placeholder under threads.
THEOREM TypeCorrect == Spec => []TypeOK
<1>1. IInv => TypeOK
  BY DEF IInv
<1>2. QED
  BY <1>1, Inductive, PTL

\* However many threads use a placeholder, however often its load_func raises and
\* whatever that load_func uses, it succeeds at most once.
THEOREM LoadsOnce == Spec => []LoadedOnce
<1>1. IInv => LoadedOnce
  BY DEF IInv, NameOK, LoadedOnce
<1>2. QED
  BY <1>1, Inductive, PTL

\* Every use of a name, of the placeholder or of what replaced it, is given the one
\* object that the scope holds.
THEOREM SameObject == Spec => []EveryoneGetsTheObject
<1>1. IInv => EveryoneGetsTheObject
  BY DEF IInv
<1>2. QED
  BY <1>1, Inductive, PTL

\* _loading_lock is held exactly inside the with statement, also after exceptions
\* that pass through several loads.
THEOREM LockDiscipline == Spec => []LockHeldInside
<1>1. IInv => LockHeldInside
  BY DEF IInv
<1>2. QED
  BY <1>1, Inductive, PTL
=============================================================================
