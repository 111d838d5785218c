---------------------------- MODULE MCShareStore ----------------------------
(* An instance of ShareStore for TLC. *)
EXTENDS ShareStore, TLC

CONSTANTS r1, r2, l

MCWalk == <<"p", "q">>
MCDirOf == [x \in {"p", "q"} |-> "dir"]
MCNameOf == [x \in {"p", "q"} |-> IF x = "p" THEN "name p" ELSE "name q"]
MCSizeOf == [c \in {"a", "b"} |-> 1]
MCConfig(algo, target) == [algo |-> algo, target |-> target]
MCConfigs == {MCConfig("md5", "file"), MCConfig("sha256", "file"), MCConfig("md5", "filename")}
MCAsk(algo, target, q) == [conf |-> MCConfig(algo, target), ask |-> q]
MCUrl(of) == [algo |-> "md5", dir |-> "dir", of |-> of]

(* A download by content, the same URL after a change of the algorithm, a *)
(* download by name; and a listing.                                       *)
MCAsks ==
  [r \in {r1, r2} |->
    IF r = r1 THEN {MCAsk("md5", "file", MCUrl("a")), MCAsk("sha256", "file", MCUrl("a")),
                    MCAsk("md5", "filename", MCUrl("name p"))}
              ELSE {MCAsk("md5", "file", l)}]
MCTrees == {[x \in {"p", "q"} |-> File("a", 0)], [x \in {"p", "q"} |-> Absent]}
=============================================================================
