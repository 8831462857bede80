-------------------------------- MODULE Selectors ------------------------------
(***************************************************************************)
(* The two intern tables of src/sel.rs, and the fixup of the selectors     *)
(* that come with a binary (load_selectors of src/loader.rs).  Selectors   *)
(* are equal when their name pointers are (sel_eq), so each text may have  *)
(* one pointer only, whichever table and thread it comes through.          *)
(*                                                                         *)
(* A step is one access to NAME_TABLE or SEL_TABLE, made under the lock of *)
(* the entry.  sel_register_name_str holds the entry of SEL_TABLE while it *)
(* interns, so a registration of a new name takes three steps.             *)
(***************************************************************************)
EXTENDS Integers, FiniteSets

CONSTANTS
    Thread,
    Text,       \* what names say
    Address,    \* where strings are in memory
    Compiled,   \* the selector structs that come with binaries,
    Literal,    \* the address of the name each of them has there
    TextOf,     \* and what it says
    Created,    \* bound: the selector structs that can be made at run time
    Nil

ASSUME LiteralShape == /\ Literal \in [Compiled -> Address]
                       /\ TextOf \in [Compiled -> Text]
                       /\ \A r, s \in Compiled : Literal[r] = Literal[s] => TextOf[r] = TextOf[s]
ASSUME SelectorStructs == /\ Compiled \cap Created = {}
                          /\ Nil \notin Text \cup Address \cup Compiled \cup Created

VARIABLES
    spelling,   \* the string at each address
    nameTable,  \* NAME_TABLE: the interned pointer of each text
    selTable,   \* SEL_TABLE: the selector registered for each text
    selName,    \* the name field of each selector struct, Nil if it does not exist
    fixedUp,    \* the compiled selectors load_selectors is done with
    registering \* the entry of SEL_TABLE each thread holds, and the name it has interned

selVars == <<spelling, nameTable, selTable, selName, fixedUp, registering>>

Waiting == [text |-> Nil, name |-> Nil]

SelInit ==
    /\ spelling = [a \in Address |-> IF \E s \in Compiled : Literal[s] = a
                                     THEN TextOf[CHOOSE s \in Compiled : Literal[s] = a] ELSE Nil]
    /\ nameTable = [n \in Text |-> Nil]
    /\ selTable = [n \in Text |-> Nil]
    /\ selName = [s \in Compiled \cup Created |-> IF s \in Compiled THEN Literal[s] ELSE Nil]
    /\ fixedUp = {}
    /\ registering = [t \in Thread |-> Waiting]

--------------------------------------------------------------------------------
\* Mutant: a new pointer is made, and put in the table, every time.
InternAgain(n, a) ==
    /\ spelling[a] = Nil
    /\ spelling' = [spelling EXCEPT ![a] = n]
    /\ nameTable' = [nameTable EXCEPT ![n] = a]

\* intern_selector_name returns a for n: what NAME_TABLE has, or else a new
\* string, which it leaks and enters.
Intern(n, a) ==
    IF nameTable[n] # Nil
    THEN a = nameTable[n] /\ UNCHANGED <<spelling, nameTable>>
    ELSE /\ spelling[a] = Nil
         /\ spelling' = [spelling EXCEPT ![a] = n]
         /\ nameTable' = [nameTable EXCEPT ![n] = a]

\* Mutant: a name that is not in the table yet is left in the binary.
FixUpKnown(s) ==
    /\ s \in Compiled \ fixedUp
    /\ LET known == nameTable[spelling[selName[s]]] IN
       selName' = [selName EXCEPT ![s] = IF known = Nil THEN @ ELSE known]
    /\ fixedUp' = fixedUp \cup {s}
    /\ UNCHANGED <<spelling, nameTable, selTable, registering>>

\* One selector of load_selectors.
FixUp(s) ==
    /\ s \in Compiled \ fixedUp
    /\ \E a \in Address : /\ Intern(spelling[selName[s]], a)
                          /\ selName' = [selName EXCEPT ![s] = a]
    /\ fixedUp' = fixedUp \cup {s}
    /\ UNCHANGED <<selTable, registering>>

\* sel_register_name_str finds no selector for n and holds the entry.  (If it
\* finds one it returns that and changes nothing.)
StartRegister(t, n) ==
    /\ registering[t] = Waiting
    /\ selTable[n] = Nil
    /\ \A u \in Thread : registering[u].text # n
    /\ registering' = [registering EXCEPT ![t].text = n]
    /\ UNCHANGED <<spelling, nameTable, selTable, selName, fixedUp>>

\* Mutant: the name is interned through SEL_TABLE, whose entry is held.
InternHeldTwice(t) ==
    LET n == registering[t].text IN
    /\ n # Nil /\ registering[t].name = Nil
    /\ \A u \in Thread : registering[u].text # n
    /\ \E a \in Address : Intern(n, a) /\ registering' = [registering EXCEPT ![t].name = a]
    /\ UNCHANGED <<selTable, selName, fixedUp>>

InternHeld(t) ==
    LET n == registering[t].text IN
    /\ n # Nil /\ registering[t].name = Nil
    /\ \E a \in Address : Intern(n, a) /\ registering' = [registering EXCEPT ![t].name = a]
    /\ UNCHANGED <<selTable, selName, fixedUp>>

\* The new selector is made and entered, and the entry let go.
Publish(t) ==
    /\ registering[t].name # Nil
    /\ \E s \in Created :
        /\ selName[s] = Nil
        /\ selName' = [selName EXCEPT ![s] = registering[t].name]
        /\ selTable' = [selTable EXCEPT ![registering[t].text] = s]
    /\ registering' = [registering EXCEPT ![t] = Waiting]
    /\ UNCHANGED <<spelling, nameTable, fixedUp>>

Register(t) == (\E n \in Text : StartRegister(t, n)) \/ InternHeld(t) \/ Publish(t)

SelNext == (\E s \in Compiled : FixUp(s)) \/ (\E t \in Thread : Register(t))

SelSpec == SelInit /\ [][SelNext]_selVars

\* A thread that holds an entry goes on.
SelFairness == \A t \in Thread : WF_selVars(InternHeld(t)) /\ WF_selVars(Publish(t))

--------------------------------------------------------------------------------
(* Properties.                                                                *)

SelTypeOK ==
    /\ spelling \in [Address -> Text \cup {Nil}]
    /\ nameTable \in [Text -> Address \cup {Nil}]
    /\ selTable \in [Text -> Created \cup {Nil}]
    /\ selName \in [Compiled \cup Created -> Address \cup {Nil}]
    /\ fixedUp \subseteq Compiled
    /\ registering \in [Thread -> [text : Text \cup {Nil}, name : Address \cup {Nil}]]

\* s is a selector the program may use, and n is the name it asked for.
Denotes(s, n) == (s \in fixedUp /\ TextOf[s] = n) \/ selTable[n] = s

\* Two selectors the program can have are equal for sel_eq if and only if they
\* have the same name: those of several binaries, fixed up by the loader, and
\* those other threads register meanwhile (sel_eq, intern_selector_name).
EqualIffSameName ==
    \A r, s \in fixedUp \cup Created, m, n \in Text :
        Denotes(r, m) /\ Denotes(s, n) => ((selName[r] = selName[s]) <=> (m = n))

\* What has been handed out stays: the pointer of a name, the selector of a
\* name, and the name of a selector that is in use (intern_selector_name's
\* "calling this function twice with equal strings returns the same pointer").
InternedStays ==
    [][/\ \A n \in Text : /\ nameTable[n] # Nil => nameTable'[n] = nameTable[n]
                          /\ selTable[n] # Nil => selTable'[n] = selTable[n]
       /\ \A s \in Compiled \cup Created, n \in Text :
            Denotes(s, n) => selName'[s] = selName[s]]_selVars

\* A registration comes to its end, whatever other threads register and load.
RegistrationEnds == \A t \in Thread : registering[t] # Waiting ~> registering[t] = Waiting
================================================================================
