----------------------------- MODULE SelectorsProofs ---------------------------
(* Proofs about Selectors, for any threads, names, addresses and selectors.   *)
EXTENDS Selectors, TLAPS

--------------------------------------------------------------------------------
(* The inductive invariant.                                                   *)

\* The pointer of a name points to the name: two names have two pointers.
InternedSpells ==
    \A n \in Text : nameTable[n] # Nil => spelling[nameTable[n]] = n

\* Every compiled selector says what it did in the binary ...
CompiledSpells == \A s \in Compiled : selName[s] # Nil /\ spelling[selName[s]] = TextOf[s]

\* ... and once fixed up has the interned pointer, as have registered
\* selectors and the threads that are about to make one.
UsesInterned ==
    /\ \A s \in fixedUp : nameTable[TextOf[s]] # Nil /\ selName[s] = nameTable[TextOf[s]]
    /\ \A n \in Text : selTable[n] # Nil =>
          nameTable[n] # Nil /\ selName[selTable[n]] = nameTable[n]
    /\ \A t \in Thread : registering[t].name # Nil =>
          /\ registering[t].text # Nil
          /\ registering[t].name = nameTable[registering[t].text]

\* Of the threads, one at most holds the entry of a name, and it is empty.
EntriesHeld ==
    /\ \A t, u \in Thread : registering[t].text # Nil /\ registering[t].text = registering[u].text => t = u
    /\ \A t \in Thread : registering[t].text # Nil => selTable[registering[t].text] = Nil

SelInv == SelTypeOK /\ InternedSpells /\ CompiledSpells /\ UsesInterned /\ EntriesHeld

--------------------------------------------------------------------------------
\* What interning a name leaves behind: a pointer that spells it, and every
\* pointer and string there was.
LEMMA Interning ==
    ASSUME SelTypeOK, InternedSpells, NEW n \in Text, NEW a \in Address, Intern(n, a)
    PROVE  /\ spelling' \in [Address -> Text \cup {Nil}]
           /\ nameTable' \in [Text -> Address \cup {Nil}]
           /\ InternedSpells'
           /\ nameTable'[n] = a
           /\ a # Nil
           /\ \A m \in Text : nameTable[m] # Nil => nameTable'[m] = nameTable[m]
           /\ \A b \in Address : spelling[b] # Nil => spelling'[b] = spelling[b]
<1>1. a # Nil /\ n # Nil
  BY SelectorStructs
<1>2. CASE nameTable[n] # Nil
  BY <1>1, <1>2 DEF Intern, SelTypeOK, InternedSpells
<1>3. CASE nameTable[n] = Nil
  <2>1. /\ spelling[a] = Nil
        /\ spelling' = [spelling EXCEPT ![a] = n]
        /\ nameTable' = [nameTable EXCEPT ![n] = a]
    BY <1>3 DEF Intern
  <2>2. ASSUME NEW m \in Text, nameTable'[m] # Nil
        PROVE  spelling'[nameTable'[m]] = m
    <3>1. CASE m = n
      BY <2>1, <3>1 DEF SelTypeOK
    <3>2. CASE m # n
      <4>1. nameTable'[m] = nameTable[m] /\ nameTable[m] # Nil /\ nameTable[m] \in Address
        BY <2>1, <2>2, <3>2 DEF SelTypeOK
      <4>2. spelling[nameTable[m]] = m /\ m # Nil
        BY <4>1, SelectorStructs DEF InternedSpells
      <4>3. nameTable[m] # a
        BY <4>2, <2>1
      <4> QED BY <4>1, <4>2, <4>3, <2>1 DEF SelTypeOK
    <3> QED BY <3>1, <3>2
  <2>3. InternedSpells'
    BY <2>2 DEF InternedSpells
  <2> QED BY <1>1, <1>3, <2>1, <2>3 DEF SelTypeOK
<1> QED BY <1>2, <1>3

\* The invariant holds at first.
LEMMA SelInitially == SelInit => SelInv
<1> SUFFICES ASSUME SelInit PROVE SelInv
  OBVIOUS
<1> USE SelectorStructs, LiteralShape
<1>1. ASSUME NEW s \in Compiled PROVE spelling[Literal[s]] = TextOf[s]
  <2>1. PICK r \in Compiled : Literal[r] = Literal[s] /\ spelling[Literal[s]] = TextOf[r]
    BY DEF SelInit
  <2> QED BY <2>1
<1>2. spelling \in [Address -> Text \cup {Nil}]
  <2>1. ASSUME NEW a \in Address, \E s \in Compiled : Literal[s] = a
        PROVE  TextOf[CHOOSE s \in Compiled : Literal[s] = a] \in Text
    BY <2>1
  <2> QED BY <2>1 DEF SelInit
<1>3. SelTypeOK
  <2>1. selName \in [Compiled \cup Created -> Address \cup {Nil}]
    BY DEF SelInit
  <2> QED BY <1>2, <2>1 DEF SelInit, SelTypeOK, Waiting
<1>4. CompiledSpells
  <2>1. \A s \in Compiled : selName[s] = Literal[s] /\ Literal[s] \in Address
    BY DEF SelInit
  <2> QED BY <1>1, <2>1 DEF CompiledSpells
<1> QED BY <1>3, <1>4 DEF SelInit, SelInv, InternedSpells, UsesInterned, EntriesHeld, Waiting

LEMMA FixUpStep ==
    ASSUME SelInv, NEW s \in Compiled, FixUp(s)
    PROVE  SelInv'
<1> USE DEF SelInv
<1>1. PICK a \in Address : /\ Intern(spelling[selName[s]], a)
                           /\ selName' = [selName EXCEPT ![s] = a]
  BY DEF FixUp
<1>2. fixedUp' = fixedUp \cup {s} /\ UNCHANGED <<selTable, registering>>
  BY DEF FixUp
<1>3. spelling[selName[s]] = TextOf[s] /\ TextOf[s] \in Text
  BY LiteralShape DEF CompiledSpells
<1>4. /\ spelling' \in [Address -> Text \cup {Nil}]
      /\ nameTable' \in [Text -> Address \cup {Nil}]
      /\ InternedSpells'
      /\ nameTable'[TextOf[s]] = a /\ a # Nil
      /\ \A m \in Text : nameTable[m] # Nil => nameTable'[m] = nameTable[m]
      /\ \A b \in Address : spelling[b] # Nil => spelling'[b] = spelling[b]
  BY <1>1, <1>3, Interning
<1>5. SelTypeOK'
  BY <1>1, <1>2, <1>4 DEF SelTypeOK
<1>6. CompiledSpells'
  <2>1. ASSUME NEW r \in Compiled PROVE selName'[r] # Nil /\ spelling'[selName'[r]] = TextOf[r]
    <3>1. CASE r = s
      <4>1. selName'[r] = a
        BY <1>1, <3>1 DEF SelTypeOK
      <4> QED BY <4>1, <3>1, <1>3, <1>4 DEF InternedSpells
    <3>2. CASE r # s
      <4>1. selName'[r] = selName[r]
        BY <1>1, <3>2 DEF SelTypeOK
      <4>2. selName[r] \in Address /\ spelling[selName[r]] = TextOf[r] /\ TextOf[r] # Nil
        BY LiteralShape, SelectorStructs DEF CompiledSpells, SelTypeOK
      <4> QED BY <4>1, <4>2, <1>4, SelectorStructs
    <3> QED BY <3>1, <3>2
  <2> QED BY <2>1 DEF CompiledSpells
<1>7. UsesInterned'
  <2>1. ASSUME NEW r \in fixedUp'
        PROVE  nameTable'[TextOf[r]] # Nil /\ selName'[r] = nameTable'[TextOf[r]]
    <3>1. CASE r = s
      BY <3>1, <1>1, <1>4 DEF SelTypeOK
    <3>2. CASE r # s
      <4>1. r \in fixedUp /\ r \in Compiled /\ TextOf[r] \in Text
        BY <3>2, <1>2, LiteralShape DEF SelTypeOK
      <4> QED BY <4>1, <3>2, <1>1, <1>4 DEF UsesInterned, SelTypeOK
    <3> QED BY <3>1, <3>2
  <2>2. ASSUME NEW n \in Text, selTable'[n] # Nil
        PROVE  nameTable'[n] # Nil /\ selName'[selTable'[n]] = nameTable'[n]
    <3>1. selTable[n] \in Created /\ selTable[n] # s /\ selTable'[n] = selTable[n]
      BY <2>2, <1>2, SelectorStructs DEF SelTypeOK
    <3> QED BY <3>1, <1>1, <1>4, SelectorStructs DEF UsesInterned, SelTypeOK
  <2>3. ASSUME NEW t \in Thread, registering'[t].name # Nil
        PROVE  /\ registering'[t].text # Nil
               /\ registering'[t].name = nameTable'[registering'[t].text]
    BY <2>3, <1>2, <1>4 DEF UsesInterned, SelTypeOK
  <2> QED BY <2>1, <2>2, <2>3 DEF UsesInterned
<1>8. EntriesHeld'
  BY <1>2 DEF EntriesHeld
<1> QED BY <1>4, <1>5, <1>6, <1>7, <1>8

LEMMA StartRegisterStep ==
    ASSUME SelInv, NEW t \in Thread, NEW n \in Text, StartRegister(t, n)
    PROVE  SelInv'
<1> USE DEF SelInv
<1>1. /\ registering[t] = Waiting /\ selTable[n] = Nil
      /\ \A u \in Thread : registering[u].text # n
      /\ registering' = [registering EXCEPT ![t].text = n]
      /\ UNCHANGED <<spelling, nameTable, selTable, selName, fixedUp>>
  BY DEF StartRegister
<1>2. registering'[t].text = n /\ registering'[t].name = Nil
  BY <1>1 DEF SelTypeOK, Waiting
<1>3. \A u \in Thread \ {t} : registering'[u] = registering[u]
  BY <1>1 DEF SelTypeOK
<1>4. SelTypeOK'
  BY <1>1 DEF SelTypeOK
<1>5. InternedSpells' /\ CompiledSpells'
  BY <1>1 DEF InternedSpells, CompiledSpells
<1>6. UsesInterned'
  BY <1>1, <1>2, <1>3 DEF UsesInterned
<1>7. EntriesHeld'
  BY <1>1, <1>2, <1>3 DEF EntriesHeld
<1> QED BY <1>4, <1>5, <1>6, <1>7

LEMMA InternHeldStep ==
    ASSUME SelInv, NEW t \in Thread, InternHeld(t)
    PROVE  SelInv'
<1> USE DEF SelInv
<1> DEFINE n == registering[t].text
<1>1. n \in Text /\ registering[t].name = Nil
  BY DEF InternHeld, SelTypeOK
<1>2. PICK a \in Address : Intern(n, a) /\ registering' = [registering EXCEPT ![t].name = a]
  BY DEF InternHeld
<1>3. UNCHANGED <<selTable, selName, fixedUp>>
  BY DEF InternHeld
<1> HIDE DEF n
<1>4. /\ spelling' \in [Address -> Text \cup {Nil}]
      /\ nameTable' \in [Text -> Address \cup {Nil}]
      /\ InternedSpells'
      /\ nameTable'[n] = a /\ a # Nil
      /\ \A m \in Text : nameTable[m] # Nil => nameTable'[m] = nameTable[m]
      /\ \A b \in Address : spelling[b] # Nil => spelling'[b] = spelling[b]
  BY <1>1, <1>2, Interning
<1>5. registering'[t].text = n /\ registering'[t].name = a
  BY <1>2 DEF SelTypeOK, n
<1>6. \A u \in Thread : registering'[u].text = registering[u].text
  BY <1>2 DEF SelTypeOK
<1>7. \A u \in Thread \ {t} : registering'[u] = registering[u]
  BY <1>2 DEF SelTypeOK
<1>8. SelTypeOK'
  BY <1>2, <1>3, <1>4 DEF SelTypeOK
<1>9. CompiledSpells'
  BY <1>3, <1>4, LiteralShape, SelectorStructs DEF CompiledSpells, SelTypeOK
<1>10. UsesInterned'
  <2>1. ASSUME NEW r \in fixedUp'
        PROVE  nameTable'[TextOf[r]] # Nil /\ selName'[r] = nameTable'[TextOf[r]]
    BY <1>3, <1>4, LiteralShape DEF UsesInterned, SelTypeOK
  <2>2. ASSUME NEW m \in Text, selTable'[m] # Nil
        PROVE  nameTable'[m] # Nil /\ selName'[selTable'[m]] = nameTable'[m]
    BY <2>2, <1>3, <1>4 DEF UsesInterned
  <2>3. ASSUME NEW u \in Thread, registering'[u].name # Nil
        PROVE  /\ registering'[u].text # Nil
               /\ registering'[u].name = nameTable'[registering'[u].text]
    <3>1. CASE u = t
      BY <3>1, <1>1, <1>4, <1>5, SelectorStructs
    <3>2. CASE u # t
      <4>1. /\ registering[u].name # Nil /\ registering[u].text # Nil
            /\ registering[u].name = nameTable[registering[u].text]
            /\ registering[u].text \in Text
        BY <2>3, <3>2, <1>7 DEF UsesInterned, SelTypeOK
      <4> QED BY <4>1, <3>2, <1>4, <1>7
    <3> QED BY <3>1, <3>2
  <2> QED BY <2>1, <2>2, <2>3 DEF UsesInterned
<1>11. EntriesHeld'
  BY <1>3, <1>6 DEF EntriesHeld
<1> QED BY <1>4, <1>8, <1>9, <1>10, <1>11

LEMMA PublishStep ==
    ASSUME SelInv, NEW t \in Thread, Publish(t)
    PROVE  SelInv'
<1> USE DEF SelInv
<1> DEFINE n == registering[t].text
<1>1. PICK s \in Created : /\ selName[s] = Nil
                           /\ selName' = [selName EXCEPT ![s] = registering[t].name]
                           /\ selTable' = [selTable EXCEPT ![n] = s]
  BY DEF Publish
<1>2. /\ registering[t].name # Nil
      /\ registering' = [registering EXCEPT ![t] = Waiting]
      /\ UNCHANGED <<spelling, nameTable, fixedUp>>
  BY DEF Publish
<1>3. /\ n \in Text /\ registering[t].name \in Address
      /\ registering[t].name = nameTable[n] /\ nameTable[n] # Nil
  BY <1>2 DEF UsesInterned, SelTypeOK
<1>4. \A r \in (Compiled \cup Created) \ {s} : selName'[r] = selName[r]
  BY <1>1 DEF SelTypeOK
<1>5. selName'[s] = nameTable[n]
  BY <1>1, <1>3 DEF SelTypeOK
<1>6. registering'[t] = Waiting /\ \A u \in Thread \ {t} : registering'[u] = registering[u]
  BY <1>2 DEF SelTypeOK
<1>7. selTable'[n] = s /\ \A m \in Text \ {n} : selTable'[m] = selTable[m]
  BY <1>1, <1>3 DEF SelTypeOK
<1>8. SelTypeOK'
  BY <1>1, <1>2, <1>3 DEF SelTypeOK, Waiting
<1> HIDE DEF n
<1>9. InternedSpells'
  BY <1>2 DEF InternedSpells
<1>10. CompiledSpells'
  BY <1>2, <1>4, SelectorStructs DEF CompiledSpells
<1>11. UsesInterned'
  <2>1. ASSUME NEW r \in fixedUp'
        PROVE  nameTable'[TextOf[r]] # Nil /\ selName'[r] = nameTable'[TextOf[r]]
    BY <1>2, <1>4, SelectorStructs DEF UsesInterned, SelTypeOK
  <2>2. ASSUME NEW m \in Text, selTable'[m] # Nil
        PROVE  nameTable'[m] # Nil /\ selName'[selTable'[m]] = nameTable'[m]
    <3>1. CASE m = n
      BY <3>1, <1>2, <1>3, <1>5, <1>7
    <3>2. CASE m # n
      <4>1. /\ selTable[m] # Nil /\ selTable'[m] = selTable[m] /\ selTable[m] \in Created
            /\ nameTable[m] # Nil /\ selName[selTable[m]] = nameTable[m]
        BY <2>2, <3>2, <1>7 DEF UsesInterned, SelTypeOK
      <4>2. selTable[m] # s
        BY <4>1, <1>1
      <4> QED BY <4>1, <4>2, <1>2, <1>4
    <3> QED BY <3>1, <3>2
  <2>3. ASSUME NEW u \in Thread, registering'[u].name # Nil
        PROVE  /\ registering'[u].text # Nil
               /\ registering'[u].name = nameTable'[registering'[u].text]
    <3>1. u # t
      BY <2>3, <1>6 DEF Waiting
    <3> QED BY <2>3, <3>1, <1>2, <1>6 DEF UsesInterned
  <2> QED BY <2>1, <2>2, <2>3 DEF UsesInterned
<1>12. EntriesHeld'
  <2>1. ASSUME NEW u \in Thread, registering'[u].text # Nil
        PROVE  u # t /\ registering[u].text # n /\ registering'[u] = registering[u]
    <3>1. u # t /\ registering'[u] = registering[u]
      BY <2>1, <1>6 DEF Waiting
    <3>2. n # Nil
      BY <1>3, SelectorStructs
    <3> QED BY <3>1, <3>2 DEF EntriesHeld, n
  <2>2. ASSUME NEW u \in Thread, registering'[u].text # Nil
        PROVE  selTable'[registering'[u].text] = Nil
    <3>1. registering[u].text \in Text \ {n} /\ selTable[registering[u].text] = Nil
      BY <2>1, <2>2 DEF EntriesHeld, SelTypeOK
    <3> QED BY <3>1, <2>1, <2>2, <1>7
  <2> QED BY <2>1, <2>2 DEF EntriesHeld
<1> QED BY <1>8, <1>9, <1>10, <1>11, <1>12

LEMMA SelStep == SelInv /\ [SelNext]_selVars => SelInv'
<1> SUFFICES ASSUME SelInv, [SelNext]_selVars PROVE SelInv'
  OBVIOUS
<1>1. CASE \E s \in Compiled : FixUp(s)
  BY <1>1, FixUpStep
<1>2. CASE \E t \in Thread : Register(t)
  BY <1>2, StartRegisterStep, InternHeldStep, PublishStep DEF Register
<1>3. CASE UNCHANGED selVars
  BY <1>3 DEF selVars, SelInv, SelTypeOK, InternedSpells, CompiledSpells, UsesInterned, EntriesHeld
<1> QED BY <1>1, <1>2, <1>3 DEF SelNext

--------------------------------------------------------------------------------
(* What follows.                                                              *)

\* The invariant holds in every reachable state.
THEOREM SelInvariance == SelSpec => []SelInv
<1> QED BY SelInitially, SelStep, PTL DEF SelSpec

\* A selector has the interned pointer of the name it was asked for.
LEMMA DenotesInterned ==
    ASSUME SelInv, NEW s \in fixedUp \cup Created, NEW n \in Text, Denotes(s, n)
    PROVE  nameTable[n] # Nil /\ selName[s] = nameTable[n]
<1>1. CASE s \in fixedUp /\ TextOf[s] = n
  BY <1>1 DEF SelInv, UsesInterned
<1>2. CASE selTable[n] = s
  <2>1. s # Nil
    BY SelectorStructs DEF SelInv, SelTypeOK
  <2> QED BY <1>2, <2>1 DEF SelInv, UsesInterned
<1> QED BY <1>1, <1>2 DEF Denotes

\* Selectors are equal for sel_eq if and only if they have the same name, for
\* any number of threads that register and images that are fixed up (sel_eq,
\* intern_selector_name, load_selectors).
THEOREM EqualSelectors == SelSpec => []EqualIffSameName
<1>1. SelInv => EqualIffSameName
  <2> SUFFICES ASSUME SelInv,
                      NEW r \in fixedUp \cup Created, NEW s \in fixedUp \cup Created,
                      NEW m \in Text, NEW n \in Text, Denotes(r, m), Denotes(s, n)
               PROVE  (selName[r] = selName[s]) <=> (m = n)
    BY DEF EqualIffSameName
  <2>1. /\ nameTable[m] # Nil /\ selName[r] = nameTable[m]
        /\ nameTable[n] # Nil /\ selName[s] = nameTable[n]
    BY DenotesInterned
  <2>2. spelling[nameTable[m]] = m /\ spelling[nameTable[n]] = n
    BY <2>1 DEF SelInv, InternedSpells
  <2> QED BY <2>1, <2>2
<1> QED BY <1>1, SelInvariance, PTL

\* What has been handed out stays: nobody replaces the pointer or the selector
\* of a name, or the name of a selector in use (intern_selector_name,
\* sel_register_name_str, load_selectors).
THEOREM HandedOutStays == SelSpec => InternedStays
<1> DEFINE Stays ==
        /\ \A n \in Text : /\ nameTable[n] # Nil => nameTable'[n] = nameTable[n]
                           /\ selTable[n] # Nil => selTable'[n] = selTable[n]
        /\ \A s \in Compiled \cup Created, n \in Text : Denotes(s, n) => selName'[s] = selName[s]
<1>1. SelInv /\ SelNext => Stays
  <2> SUFFICES ASSUME SelInv, SelNext PROVE Stays
    OBVIOUS
  <2> USE DEF SelInv
  <2>1. ASSUME NEW s \in Compiled \cup Created, NEW n \in Text, Denotes(s, n)
        PROVE  s \in fixedUp \cup Created /\ selName[s] # Nil
    <3>1. s \in fixedUp \cup Created
      BY <2>1, SelectorStructs DEF Denotes, SelTypeOK
    <3> QED BY <2>1, <3>1, DenotesInterned
  <2>2. ASSUME NEW r \in Compiled, FixUp(r) PROVE Stays
    <3>1. PICK a \in Address : /\ Intern(spelling[selName[r]], a)
                               /\ selName' = [selName EXCEPT ![r] = a]
      BY <2>2 DEF FixUp
    <3>2. spelling[selName[r]] \in Text
      BY LiteralShape DEF CompiledSpells
    <3>3. \A m \in Text : nameTable[m] # Nil => nameTable'[m] = nameTable[m]
      BY <3>1, <3>2, Interning
    <3>4. r \notin fixedUp \cup Created /\ UNCHANGED selTable
      BY <2>2, SelectorStructs DEF FixUp
    <3>5. \A s \in (Compiled \cup Created) \ {r} : selName'[s] = selName[s]
      BY <3>1 DEF SelTypeOK
    <3> QED BY <2>1, <3>3, <3>4, <3>5
  <2>3. ASSUME NEW t \in Thread, NEW n \in Text, StartRegister(t, n) PROVE Stays
    BY <2>3 DEF StartRegister
  <2>4. ASSUME NEW t \in Thread, InternHeld(t) PROVE Stays
    <3>1. registering[t].text \in Text
      BY <2>4 DEF InternHeld, SelTypeOK
    <3>2. \A m \in Text : nameTable[m] # Nil => nameTable'[m] = nameTable[m]
      <4>1. PICK a \in Address : Intern(registering[t].text, a)
        BY <2>4 DEF InternHeld
      <4> QED BY <3>1, <4>1, Interning
    <3> QED BY <2>4, <3>2 DEF InternHeld
  <2>5. ASSUME NEW t \in Thread, Publish(t) PROVE Stays
    <3>1. PICK r \in Created : /\ selName[r] = Nil
                               /\ selName' = [selName EXCEPT ![r] = registering[t].name]
                               /\ selTable' = [selTable EXCEPT ![registering[t].text] = r]
      BY <2>5 DEF Publish
    <3>2. registering[t].text # Nil
      BY <2>5 DEF Publish, UsesInterned
    <3>3. selTable[registering[t].text] = Nil
      BY <3>2 DEF EntriesHeld
    <3>4. \A m \in Text : selTable[m] # Nil => selTable'[m] = selTable[m]
      BY <3>1, <3>3 DEF SelTypeOK
    <3>5. \A s \in (Compiled \cup Created) \ {r} : selName'[s] = selName[s]
      BY <3>1 DEF SelTypeOK
    <3>6. UNCHANGED nameTable
      BY <2>5 DEF Publish
    <3> QED BY <2>1, <3>1, <3>4, <3>5, <3>6
  <2> QED BY <2>2, <2>3, <2>4, <2>5 DEF SelNext, Register
<1>2. SelInv /\ [SelNext]_selVars => [Stays]_selVars
  BY <1>1
<1> QED BY <1>2, SelInvariance, PTL DEF SelSpec, InternedStays
================================================================================
