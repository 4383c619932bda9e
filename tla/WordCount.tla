------------------------------ MODULE WordCount ------------------------------
(***************************************************************************)
(* The word count program: map tasks that each count the words starting in *)
(* their byte range of the corpus, one reduce task per partition, a merge  *)
(* that draws the K most frequent.  From programs/wordcount/assembly.      *)
(*                                                                         *)
(* A word is the sequence of its bytes.  What a task puts into its output  *)
(* byte by byte (headers, offsets, lengths) is here the value it encodes:  *)
(* a map output is a function from partitions to counts, a reduce output   *)
(* the ranked pairs.  How tasks are placed, retried and settled is module  *)
(* Settlement, how a stage follows a stage module Stages.                  *)
(***************************************************************************)
EXTENDS Integers, SequencesExt, Bitwise

CONSTANTS
    Symbols,        \* the bytes a corpus is made of
    MaxSize,        \* bound: bytes of a corpus
    MaxMapTasks,    \* MAX_MAP_TASKS
    MaxK,           \* MAX_K
    Partitions,     \* PARTITIONS, a divisor of 8
    TailChunk       \* TAIL_CHUNK

ASSUME WordCountAssumption ==
    /\ Symbols \subseteq 0..255 /\ MaxSize \in Nat
    /\ {MaxMapTasks, MaxK, TailChunk} \subseteq Nat \ {0}
    /\ Partitions \in {1, 2, 4, 8}

VARIABLES
    corpus,     \* the bytes of /in/corpus.txt
    params,     \* the launch's k and mapTasks, as getI32In clamps them
    stage,      \* the stage that runs; 3 is the end
    out         \* per stage, the outputs of its tasks under /out/<stage>/

vars == <<corpus, params, stage, out>>
Total == Len(corpus)
-----------------------------------------------------------------------------
(* Bytes and words. *)

Apostrophe == 39
IsWordByte(b) == b \in (97..122) \cup (65..90) \cup {Apostrophe}
Lower(b) == IF b \in 65..90 THEN b + 32 ELSE b

\* partitionOf: FNV-1a modulo a divisor of 8 needs only the hash's last three
\* bits, which are a function of themselves: the basis ends in 5, the prime in 3.
PartitionOf(word) ==
    FoldLeft(LAMBDA h, b : ((h ^^ (b % 8)) * 3) % 8, 5, word) % Partitions

\* How many word bytes a sequence starts with.
WordRun(bytes) ==
    LET stop == SelectInSeq(bytes, LAMBDA b : ~IsWordByte(b))
    IN  IF stop = 0 THEN Len(bytes) ELSE stop - 1

\* A run without its leading and trailing apostrophes.
Stripped(run) ==
    LET letters == {p \in DOMAIN run : run[p] # Apostrophe}
    IN  IF letters = {} THEN <<>> ELSE SubSeq(run, Min(letters), Max(letters))

\* countWords: the words of a buffer, in order.
WordsIn(text) ==
    LET from[i \in 1..Len(text) + 1] ==
            LET run == WordRun(SubSeq(text, i, Len(text)))
                word == Stripped(SubSeq(text, i, i + run - 1))
            IN  IF i > Len(text) THEN <<>>
                ELSE IF run = 0 THEN from[i + 1]
                ELSE (IF word = <<>> THEN <<>> ELSE <<word>>) \o from[i + run]
    IN  from[1]

Counts(words) ==
    [w \in Range(words) |-> Cardinality({i \in DOMAIN words : words[i] = w})]

\* byWord: the strings' own order.
ByWord(v, w) ==
    \/ IsStrictPrefix(v, w)
    \/ \E i \in DOMAIN v \cap DOMAIN w :
          v[i] < w[i] /\ SubSeq(v, 1, i - 1) = SubSeq(w, 1, i - 1)
-----------------------------------------------------------------------------
(* The tasks. *)

\* fs.readRange: fewer bytes at the end of the file.
ReadRange(offset, length) ==
    SubSeq(corpus, offset + 1, Min({offset + length, Total}))

\* A word that starts where the range does is taken for the neighbour's.
HeadSkipBug(start, buf) == IF start > 0 /\ buf # <<>> THEN WordRun(buf) ELSE 0

\* How much of the range belongs to a word its neighbour owns.
HeadSkip(start, buf) ==
    IF start > 0 /\ buf # <<>> /\ IsWordByte(corpus[start]) THEN WordRun(buf) ELSE 0

\* The range minus a word straddling its start, plus the rest of a word
\* straddling its end, read a chunk at a time.
OwnedBytes(start, end) ==
    LET buf == ReadRange(start, end - start)
        own == SubSeq(buf, HeadSkip(start, buf) + 1, Len(buf))
        tail[pos \in 0..Total] ==
            LET chunk == ReadRange(pos, TailChunk)
                run == WordRun(chunk)
            IN  IF pos = Total THEN <<>>
                ELSE IF run < Len(chunk) THEN SubSeq(chunk, 1, run)
                ELSE chunk \o tail[pos + Len(chunk)]
        unfinished == own # <<>> /\ IsWordByte(Last(own)) /\ end < Total
        bytes == own \o IF unfinished THEN tail[end] ELSE <<>>
    IN  [i \in DOMAIN bytes |-> Lower(bytes[i])]

\* plan, stage 0: task i's byte range.
MapInput(i) == [start |-> (Total * i) \div params.mapTasks,
                end |-> (Total * (i + 1)) \div params.mapTasks]

MapTask(i) ==
    LET counts == Counts(WordsIn(OwnedBytes(MapInput(i).start, MapInput(i).end)))
    IN  [p \in 0..Partitions - 1 |->
            Restrict(counts, {w \in DOMAIN counts : PartitionOf(w) = p})]

\* A word of two outputs keeps the later one's count.
AddPairsBug(counts, more) == more @@ counts

AddPairs(counts, more) ==
    [w \in DOMAIN counts \cup DOMAIN more |->
        (IF w \in DOMAIN counts THEN counts[w] ELSE 0)
            + (IF w \in DOMAIN more THEN more[w] ELSE 0)]

\* byCountDesc: by count, descending, then by word.
ByCountDesc(counts, v, w) ==
    counts[v] > counts[w] \/ (counts[v] = counts[w] /\ ByWord(v, w))

RankOf(counts) == SetToSortSeq(DOMAIN counts, LAMBDA v, w : ByCountDesc(counts, v, w))

\* sortedPairs: a reduce output lists words and counts as ranked.
SortedPairs(counts) ==
    LET order == RankOf(counts) IN [i \in DOMAIN order |-> <<order[i], counts[order[i]]>>]

AsCounts(pairs) == [w \in {pairs[i][1] : i \in DOMAIN pairs} |->
                        LET i == CHOOSE i \in DOMAIN pairs : pairs[i][1] = w
                        IN  pairs[i][2]]

NoCounts == <<>>
Abort == "abort"

ReduceTask(partition) ==
    IF Cardinality(DOMAIN out[0]) # params.mapTasks THEN Abort
    ELSE SortedPairs(FoldFunction(LAMBDA file, counts : AddPairs(counts, file[partition]),
                                  NoCounts, out[0]))

\* The bars of the top K.
MergeTask ==
    LET counts == FoldFunction(LAMBDA pairs, acc : AddPairs(acc, AsCounts(pairs)),
                               NoCounts, out[1])
        pairs == SortedPairs(counts)
    IN  IF Cardinality(DOMAIN out[1]) # Partitions THEN Abort
        ELSE SubSeq(pairs, 1, Min({Len(pairs), params.k}))
-----------------------------------------------------------------------------
(* The execution: tasks of a stage in any order, then the next stage. *)

\* plan: how many tasks the stage has.
Tasks(s) == CASE s = 0 -> 0..params.mapTasks - 1
              [] s = 1 -> 0..Partitions - 1
              [] s = 2 -> {0}
              [] s = 3 -> {}

Output(s, i) == CASE s = 0 -> MapTask(i) [] s = 1 -> ReduceTask(i) [] s = 2 -> MergeTask

Init ==
    /\ corpus \in UNION {[1..n -> Symbols] : n \in 0..MaxSize}
    /\ params \in [k : 1..MaxK, mapTasks : 1..MaxMapTasks]
    /\ stage = 0
    /\ out = [s \in 0..2 |-> <<>>]

RunTask(i) ==
    /\ i \in Tasks(stage) \ DOMAIN out[stage]
    /\ out' = [out EXCEPT ![stage] = @ @@ (i :> Output(stage, i))]
    /\ UNCHANGED <<corpus, params, stage>>

\* The next stage is planned once a task has an output.
NextStageBug ==
    /\ stage < 3 /\ out[stage] # <<>>
    /\ stage' = stage + 1
    /\ UNCHANGED <<corpus, params, out>>

NextStage ==
    /\ stage < 3 /\ DOMAIN out[stage] = Tasks(stage)
    /\ stage' = stage + 1
    /\ UNCHANGED <<corpus, params, out>>

Next == NextStage \/ \E i \in Tasks(stage) : RunTask(i)
Spec == Init /\ [][Next]_vars
-----------------------------------------------------------------------------
(* Properties: what the stages compute, against the corpus read at once. *)

\* The runs of word bytes, by their places in the whole corpus.
Runs == {r \in (1..Total) \X (1..Total) :
            /\ r[1] =< r[2] /\ \A p \in r[1]..r[2] : IsWordByte(corpus[p])
            /\ r[1] > 1 => ~IsWordByte(corpus[r[1] - 1])
            /\ r[2] < Total => ~IsWordByte(corpus[r[2] + 1])}
WordAt(r) == LET run == SubSeq(corpus, r[1], r[2])
             IN  Stripped([i \in DOMAIN run |-> Lower(run[i])])
Words == {WordAt(r) : r \in Runs} \ {<<>>}
Occurrences(w, start, end) ==
    Cardinality({r \in Runs : r[1] \in start + 1..end /\ WordAt(r) = w})

TypeOK ==
    /\ corpus \in Seq(Symbols) /\ Total =< MaxSize
    /\ params.k \in 1..MaxK /\ params.mapTasks \in 1..MaxMapTasks
    /\ stage \in 0..3
    /\ \A s \in 0..2 : DOMAIN out[s] \subseteq Tasks(s)
    /\ \A s \in 1..2 : \A i \in DOMAIN out[s] : out[s][i] \in Seq(Words \X (Nat \ {0}))

\* A map task counts the words that start in its range and no others, however
\* long they are and wherever its range cuts them, each in its own partition.
OwnsItsWords ==
    \A i \in DOMAIN out[0], p \in 0..Partitions - 1 :
        LET In == MapInput(i)
        IN  out[0][i][p] =
                [w \in {v \in Words : PartitionOf(v) = p /\ Occurrences(v, In.start, In.end) > 0}
                    |-> Occurrences(w, In.start, In.end)]

\* The bars show the K most frequent words of the whole corpus with their exact
\* counts, ties in the words' order, whatever the split into tasks.
TopExact ==
    0 \in DOMAIN out[2] =>
        LET bars == out[2][0]
            count(w) == Occurrences(w, 0, Total)
            tied(w) == {v \in Words : count(v) = count(w) /\ ByWord(v, w)}
            above(w) == {v \in Words : count(v) > count(w)} \cup tied(w)
        IN  /\ bars # Abort /\ Len(bars) = Min({params.k, Cardinality(Words)})
            /\ \A i \in DOMAIN bars :
                  /\ bars[i][1] \in Words /\ bars[i][2] = count(bars[i][1])
                  /\ Cardinality(above(bars[i][1])) = i - 1
=============================================================================
