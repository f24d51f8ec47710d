-------------------------- MODULE ConfigGenerator ---------------------------
(***************************************************************************)
(* tools/config_generator.py: a tree of sections and properties stands for *)
(* all configurations that take one child at every node and, of a          *)
(* property, one value.                                                    *)
(*                                                                         *)
(* A tree is a sequence of nodes, its root first; a node names its         *)
(* children by their places.  A configuration is a sequence of lines: the  *)
(* name of a section, or a name and a value.                               *)
(***************************************************************************)
EXTENDS Integers, SequencesExt

\* read_settings and _read_childs raise an exception for any other kind of node.
Readable(tree) == \A n \in DOMAIN tree : tree[n].kind \in {"section", "property"}

\* The lines a node may add to a configuration.
Lines(node) ==
  IF node.kind = "section" THEN << <<node.name>> >>
  ELSE [i \in DOMAIN node.values |-> <<node.name, node.values[i]>>]

\* Config.append
Prepend(line, configs) == [j \in DOMAIN configs |-> <<line>> \o configs[j]]

\* All that the elements of a sequence stand for, one after the other.
Each(Op(_), seq) == FoldLeft(LAMBDA acc, x : acc \o Op(x), << >>, seq)

\* _Node.process from the root: the children of a node are alternatives.
ConfigList(tree) ==
  LET process[n \in DOMAIN tree] ==
        LET below == IF tree[n].childs = << >> THEN << << >> >>
                     ELSE Each(LAMBDA child : process[child], tree[n].childs)
        IN Each(LAMBDA line : Prepend(line, below), Lines(tree[n]))
  IN process[1]

=============================================================================
