----------------------------- MODULE MCIngestion -----------------------------
(***************************************************************************)
(* Instances of Ingestion for TLC.  Lengths are in half seconds: windows   *)
(* of 3 s every 1.5 s, a tail threshold of 1 s and a minimum of 1 s.       *)
(***************************************************************************)
EXTENDS Ingestion

MCWindow == 6
MCHop == 3
MCTailPad == 2
MCMinDuration == 2
MCLengths == 0..40

MCRunIds == {"run1", "run2", "a/b", ""}
MCSchemes == {"", "s3", "file", "http"}
MCBuckets == {"fma-small-artifacts", "other", ""}

\* Track 2 is well described; the row of track 1 may lack what the loader asks for.
Row(subset, genre, duration) == [subset |-> subset, genre |-> genre, duration |-> duration]
Plainly == Row("small", "Folk", Val("float", "1"))
Endless == Row("small", "Folk", Val("nan", "nan"))
Catalogue(row) == [t \in Tracks |-> IF t = 1 THEN row ELSE Plainly]

\* The file of track 1 may be anything, before it is replaced and after, that of track 2
\* has one segment.
File(form, length) == [form |-> form, length |-> length]
Long == File("sound", 8)
Short == File("sound", 4)
Files(first, second) ==
    [t \in Tracks |-> [c \in Contents |->
        IF t = 2 THEN Short ELSE IF c = "c1" THEN first ELSE second]]

\* One job for the run, or one for each track.
First == CHOOSE j \in Jobs : TRUE
Alone == [j \in Jobs |-> IF j = First THEN Tracks ELSE {}]
Apart == [j \in Jobs |-> IF j = First THEN {1} ELSE {2}]

Input(lists, row, first, second) ==
    [allowed |-> lists, catalogue |-> Catalogue(row), files |-> Files(first, second),
     audio |-> [t \in Tracks |-> "c1"]]

\* Files that are replaced by others as long, by longer and by shorter ones; rows the
\* loader refuses or leaves out; files that are rejected, before or after they are
\* replaced; durations that are not finite, with a file to probe and without.
MCInputs ==
    {Input(Apart, Plainly, Long, Short), Input(Alone, Plainly, Long, Long),
     Input(Alone, Plainly, Long, Short), Input(Alone, Plainly, Short, Long),
     Input(Alone, Plainly, Long, File("silent", 8)),
     Input(Alone, Endless, File("missing", 0), Short),
     Input(Alone, Endless, Short, File("unprobeable", 8))}
    \cup {Input(Alone, row, Short, Short) :
             row \in {Row("small", "Folk", Val("float", "0")),
                     Row("small", "Folk", Val("null", "null")),
                     Row("large", "Folk", Val("float", "1")),
                     Row("small", "", Val("float", "1"))}}
    \cup {Input(Alone, Plainly, first, Short) :
             first \in {File("missing", 8), File("unprobeable", 8), File("sound", 0),
                       File("sound", 1), File("undecodable", 8), File("silent", 8),
                       File("sound", 2), File("sound", 3)}}

MCStrikes == [failure |-> 1, rewrite |-> 1]
=============================================================================
