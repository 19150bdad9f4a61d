---------------------------- MODULE MCOperatorFs ----------------------------
(* A path /dir/file: two directories compete for the name of the first     *)
(* component, two files and a link for the name of the second.             *)
EXTENDS OperatorFs

CONSTANTS root, d1, d2, f1, f2, ln

MCInode == {root, d1, d2, f1, f2, ln}

MCKind == [i \in MCInode |->
             IF i \in {f1, f2} THEN "reg" ELSE IF i = ln THEN "link" ELSE "dir"]

MCFits == [d \in {root, d1, d2} |->
             IF d = root THEN {d1, d2, f2} ELSE IF d = d1 THEN {f1, f2, ln} ELSE {f2}]

(* The package as installed: /d1/f1 is read; d2, f2 and ln wait to be put  *)
(* in their place, f2 owned by the service account.                        *)
MCInit ==
  /\ entry = [d \in {root, d1, d2} |-> IF d = root THEN d1 ELSE IF d = d1 THEN f1 ELSE f2]
  /\ meta = [i \in MCInode |-> IF i = f2 THEN "service" ELSE "root"]
  /\ content \in {[f \in {f1, f2} |-> IF f = f1 THEN c ELSE <<1, 1>>] :
                    c \in {<<0>>, <<0, 1>>}}
  /\ Init

MCSpec == MCInit /\ [][Next]_vars /\ WF_vars(ReaderStep /\ UNCHANGED fsVars)

MCContents == {<<>>, <<0>>, <<0, 1>>, <<1, 1>>, <<0, 1, 1>>, <<1, 1, 1, 1>>}

(* For the runs in which nothing bounds the number of changes: a path      *)
(* /file, with one file and one link.                                      *)
OneInode == {root, f1, ln}

OneKind == [i \in OneInode |-> IF i = f1 THEN "reg" ELSE IF i = ln THEN "link" ELSE "dir"]

OneFits == [d \in {root} |-> {f1, ln}]
=============================================================================
