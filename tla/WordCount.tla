----------------------------- MODULE WordCount -----------------------------
(***************************************************************************)
(* The word counter of src/warmup/wc.c as test_wc.c uses it: wc_init scans *)
(* an array of characters and puts its words into a hash table with        *)
(* chains, wc_output prints the table, wc_destroy frees it.                *)
(*                                                                         *)
(* Characters are their codes.  A zero byte in the array and codes above   *)
(* 127 (char is signed) are left out, and so are arrays of 2^30 characters *)
(* and more, whose table size does not fit an int.                         *)
(*                                                                         *)
(* A name with a suffix _M... is the definition below it with one mistake; *)
(* no specification uses it.                                               *)
(***************************************************************************)
EXTENDS Integers, Sequences, FiniteSets, SequencesExt

CONSTANTS
  Letters,    \* characters that are not white space
  Spaces,     \* characters that are
  MaxText,    \* the length of the longest array
  Tails,      \* what malloc may leave in the last byte of a buffer and behind
  HashRange   \* the values of an unsigned long

ASSUME CharactersAssumption ==
  /\ Letters \cup Spaces \subseteq 1 .. 127 /\ Letters \cap Spaces = {}
  /\ <<>> \in Tails /\ Tails \subseteq Seq(Letters)
  /\ MaxText \in Nat /\ HashRange \in Nat \ {0}

VARIABLES
  text,          \* word_array; its length is the argument size
  pc,            \* "init", "output", "destroy" or "done"
  index,         \* of the character wc_init looks at, from 0
  counter,       \* the length of the word so far
  head_of_word,  \* where it begins
  items,         \* wc->items: the chain of each place of the table
  element_count, \* wc->element_count
  place,         \* the index i of wc_output and wc_destroy
  printed,       \* what wc_output has printed
  heap,          \* how much of each kind is allocated (observed only)
  dirty          \* whether a buffer had a tail (observed only)

vars == <<text, pc, index, counter, head_of_word, items, element_count, place,
          printed, heap, dirty>>
table == <<items, element_count, heap, dirty>>

Size == 2 * Len(text)

Hash(key, size) ==
  LET hash[n \in 0 .. Len(key)] ==
        IF n = 0 THEN 5381 ELSE (hash[n - 1] * 33 + key[n]) % HashRange
  IN hash[Len(key)] % size

Init ==
  /\ text \in UNION {[1 .. n -> Letters \cup Spaces] : n \in 0 .. MaxText}
  /\ pc = "init"
  /\ index = 0 /\ counter = 0 /\ head_of_word = 0
  /\ items = [p \in 0 .. Size - 1 |-> <<>>]
  /\ element_count = 0
  /\ place = 0 /\ printed = <<>>
  /\ heap = [item |-> 0, key |-> 0, next |-> 0, buffer |-> 0, table |-> 1]
  /\ dirty = FALSE

-----------------------------------------------------------------------------
(* wc_init, one character in each step.                                     *)
Scans == pc = "init" /\ index < Len(text)
AtSpace == text[index + 1] \in Spaces

(* The buffer gets the word without a 0 after it: strcat of an empty string *)
(* adds none, so the string goes on with the tail.                          *)
Word == SubSeq(text, head_of_word + 1, head_of_word + counter)

(* The entry with this key in a chain; 0 if there is none.                  *)
Found_MHeadOnly(chain, key) ==
  IF chain # <<>> /\ Head(chain).key = key THEN 1 ELSE 0
Found(chain, key) == SelectInSeq(chain, LAMBDA entry : entry.key = key)

(* create_items.                                                            *)
NewItem(key) == [key |-> key, count |-> 1]
Created(h) == [h EXCEPT !.item = @ + 1, !.key = @ + 1, !.next = @ + 1]

WordEnds ==
  /\ Scans /\ AtSpace /\ counter > 0
  /\ \E tail \in Tails :
       LET key == Word \o tail
           insertID == Hash(key, Size)
           chain == items[insertID]
           found == Found(chain, key)
       IN /\ dirty' = (dirty \/ tail # <<>>)
          /\ items' = [items EXCEPT ![insertID] =
               IF found > 0 THEN [chain EXCEPT ![found].count = @ + 1]
                            ELSE Append(chain, NewItem(key))]
          /\ LET buffered == [heap EXCEPT !.buffer = @ + 1]
             IN heap' = IF found > 0 THEN buffered ELSE Created(buffered)
  /\ element_count' = element_count + 1
  /\ counter' = 0
  /\ index' = index + 1
  /\ UNCHANGED <<text, pc, head_of_word, place, printed>>

SkipsSpace ==
  /\ Scans /\ AtSpace /\ counter = 0
  /\ index' = index + 1
  /\ UNCHANGED <<text, pc, counter, head_of_word, table, place, printed>>

WordBegins ==
  /\ Scans /\ ~AtSpace /\ counter = 0
  /\ head_of_word' = index
  /\ counter' = 1
  /\ index' = index + 1
  /\ UNCHANGED <<text, pc, table, place, printed>>

WordGoesOn ==
  /\ Scans /\ ~AtSpace /\ counter > 0
  /\ counter' = counter + 1
  /\ index' = index + 1
  /\ UNCHANGED <<text, pc, head_of_word, table, place, printed>>

(* A word that the end of the array cuts off is in no entry.                *)
InitReturns ==
  /\ pc = "init" /\ index = Len(text)
  /\ pc' = "output"
  /\ UNCHANGED <<text, index, counter, head_of_word, table, place, printed>>

-----------------------------------------------------------------------------
(* wc_output, one place of the table in each step.                          *)
Output_MHeadOnly(chain) == IF chain = <<>> THEN <<>> ELSE <<Head(chain)>>
Output(chain) == chain

PrintsChain ==
  /\ pc = "output" /\ place < Size
  /\ printed' = printed \o Output(items[place])
  /\ place' = place + 1
  /\ UNCHANGED <<text, pc, index, counter, head_of_word, table>>

OutputReturns ==
  /\ pc = "output" /\ place = Size
  /\ pc' = "destroy"
  /\ place' = 0
  /\ UNCHANGED <<text, index, counter, head_of_word, table, printed>>

(* wc_destroy frees the items of each chain, not their keys and not what    *)
(* create_items allocated for next, then the table; the buffers of wc_init  *)
(* are out of its reach.                                                    *)
Freed_MHeadOnly(chain) == IF chain = <<>> THEN 0 ELSE 1
Freed(chain) == Len(chain)

FreesChain ==
  /\ pc = "destroy" /\ place < Size
  /\ heap' = [heap EXCEPT !.item = @ - Freed(items[place])]
  /\ items' = [items EXCEPT ![place] = <<>>]
  /\ place' = place + 1
  /\ UNCHANGED <<text, pc, index, counter, head_of_word, element_count, printed, dirty>>

DestroyReturns ==
  /\ pc = "destroy" /\ place = Size
  /\ pc' = "done"
  /\ heap' = [heap EXCEPT !.table = 0]
  /\ UNCHANGED <<text, index, counter, head_of_word, items, element_count, place,
                 printed, dirty>>

Next ==
  \/ WordEnds \/ SkipsSpace \/ WordBegins \/ WordGoesOn \/ InitReturns
  \/ PrintsChain \/ OutputReturns
  \/ FreesChain \/ DestroyReturns

Spec == Init /\ [][Next]_vars

-----------------------------------------------------------------------------
(* Properties.                                                             *)

(* Where words stand in an array, each with the place behind it: what       *)
(* wc.h:12-15 calls "a sequence of words, separated by spaces", said        *)
(* without a scan.                                                          *)
IsWord(array, a, b) ==
  /\ a < b
  /\ \A k \in a .. b - 1 : array[k] \notin Spaces
  /\ a > 1 => array[a - 1] \in Spaces
  /\ b <= Len(array) => array[b] \in Spaces
Occurrences(array) ==
  {o \in (1 .. Len(array)) \X (1 .. Len(array) + 1) : IsWord(array, o[1], o[2])}

(* The words that have ended before a scan comes to index n.                *)
Ended(array, n) == {o \in Occurrences(array) : o[2] <= n}

WordAt(array, o) == SubSeq(array, o[1], o[2] - 1)
Words(array, O) == {WordAt(array, o) : o \in O}
Count(array, O, key) == Cardinality({o \in O : WordAt(array, o) = key})

(* What wc_output should print, in any order.                               *)
Report(array) ==
  LET O == Occurrences(array)
  IN {[key |-> w, count |-> Count(array, O, w)] : w \in Words(array, O)}

(* The entries of a table, by place and position in the chain, and one      *)
(* element for each time that an entry has been counted.                    *)
Part(t, p) == {p} \X (1 .. Len(t[p]))
Entries(t) == UNION {Part(t, p) : p \in DOMAIN t}
Counted(t) == UNION {{e} \X (1 .. t[e[1]][e[2]].count) : e \in Entries(t)}

(* At each point of the scan, and whichever words share a place: each word  *)
(* that has ended before it has been counted once, no key has two entries,  *)
(* and each is in the chain where its hash leads.  Where malloc left zeros  *)
(* in the buffers, the entry of each such word has its number.              *)
CountsExact ==
  pc = "init" =>
    /\ element_count = Cardinality(Ended(text, index))
    /\ element_count = Cardinality(Counted(items))
    /\ \A p \in 0 .. Size - 1 : \A i \in 1 .. Len(items[p]) :
         /\ Hash(items[p][i].key, Size) = p
         /\ \A j \in 1 .. Len(items[p]) : items[p][j].key = items[p][i].key => j = i
    /\ ~dirty => \A w \in Words(text, Ended(text, index)) :
         \E i \in 1 .. Len(items[Hash(w, Size)]) :
           items[Hash(w, Size)][i] =
             [key |-> w, count |-> Count(text, Ended(text, index), w)]

(* No two lines of the output have the same key.  Of an array that ends in  *)
(* white space, or is empty, and with zeros in the buffers, the output is   *)
(* the report that wc.h:20-22 asks for: each word once, with its count.     *)
Closed(array) == array # <<>> => Last(array) \in Spaces
PrintedOnce ==
  pc = "done" =>
    /\ Cardinality({line.key : line \in ToSet(printed)}) = Len(printed)
    /\ Closed(text) /\ ~dirty => ToSet(printed) = Report(text)

(* The program holds as many items as its table has entries, none is freed  *)
(* twice or while it is in a chain, and in the end they and the table are   *)
(* given back.                                                              *)
ItemsFreed ==
  /\ heap.item = Cardinality(Entries(items))
  /\ pc = "done" => heap.item = 0 /\ heap.table = 0

(* What wc.h says and the code does not do.                                 *)

(* wc.h:14: "initialize your data structure with the words in the array",   *)
(* with each of them, also with one that the end of the array ends.         *)
EveryWordIsCounted == pc = "done" => element_count = Cardinality(Occurrences(text))

(* wc.h:20: the output is of "unique words that have been inserted in wc",  *)
(* and of nothing that was in the memory of a buffer before.                *)
OnlyWordsArePrinted ==
  pc = "done" =>
    \A line \in ToSet(printed) : line.key \in Words(text, Occurrences(text))

(* wc.h:36: wc_destroy is to "Destroy all the data structures you have      *)
(* created, so you have no memory loss".                                    *)
NoMemoryLoss == pc = "done" => \A kind \in DOMAIN heap : heap[kind] = 0

(* Each of the three is promised of every array.  What is checked is less:  *)
(* that at least one of them is kept.  An array for which all three are     *)
(* broken refutes each.                                                     *)
SomeWordPromiseKept == EveryWordIsCounted \/ OnlyWordsArePrinted \/ NoMemoryLoss

=============================================================================
