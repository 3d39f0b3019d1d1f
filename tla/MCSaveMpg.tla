---------------------------- MODULE MCSaveMpg ------------------------------
EXTENDS SaveMpg

(* Sequences as lists of pictures in the order of the file, each with its  *)
(* type and its rank.                                                      *)
Pic(type, rank) == [type |-> type, rank |-> rank]

Closed == <<Pic("I", 0), Pic("P", 2), Pic("B", 1)>>
Open   == <<Pic("I", 1), Pic("B", 0), Pic("P", 3), Pic("B", 2)>>
Groups == <<Pic("I", 0), Pic("P", 1), Pic("I", 3), Pic("B", 2)>>
Single == <<Pic("I", 0)>>
Lossy  == <<Pic("I", 0), Pic("B", 1), Pic("P", 2)>>  \* a P picture is missing

(* The table of a recording of these sequences.                            *)
TableOf(seqs) ==
  LET flat == FlattenSeq([k \in DOMAIN seqs |->
                [j \in DOMAIN seqs[k] |-> [pic |-> seqs[k][j], hdr |-> j = 1]]])
  IN  [n |-> Len(flat),
       p |-> [i \in 0 .. Len(flat) - 1 |->
                [pos |-> i, type |-> flat[i + 1].pic.type,
                 seqnr |-> flat[i + 1].pic.rank, hdr |-> flat[i + 1].hdr,
                 res |-> 1]]]

MCTables == {TableOf(s) : s \in {<<Closed, Open, Single>>, <<Open, Closed>>,
                                 <<Groups, Open>>, <<Open, Groups>>,
                                 <<Single, Groups, Single>>, <<Open, Lossy>>}}
Stills == {TableOf(<<Single, Single, Single, Single, Single>>),
           TableOf(<<Open, Single>>)}

Recorded(table, first, begin, count) ==
  [n |-> table.n, p |-> table.p, origin |-> first, audiobegin |-> begin,
   frames |-> count]

(* Pictures without sound; and sound that begins and ends before, in and   *)
(* behind the ranges.                                                      *)
SilentRecordings == {Recorded(t, 0, 0, 0) : t \in MCTables}
AudioRecordings ==
  {Recorded(t, 0, b, c) :
     t \in Stills, b \in {-2, 1, 3, 14}, c \in {2, 3, 9}}
    \cup {Recorded(t, 10, -2, 9) : t \in Stills}
AllRecordings == SilentRecordings \cup AudioRecordings
=============================================================================
