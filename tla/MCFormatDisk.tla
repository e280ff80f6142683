---------------------------- MODULE MCFormatDisk ----------------------------
(* A root with four files and a directory, which is empty or has a file,   *)
(* in all orders readdir may find them: files and the directory start      *)
(* before, in and behind the kernel's blocks and run into them.  Seven and *)
(* eight inodes in blocks of four: full and partly full.  The file in the  *)
(* directory has a name of its own or passes for a binary.                 *)
EXTENDS FormatDisk, TLC

MCFiles == {"prekernel.bin", "kernel.bin", "a", "b"}
MCOrders == {o \in [1 .. 5 -> MCFiles \cup {"sub"}] : \A i, j \in 1 .. 5 : o[i] = o[j] => i = j}

MCPrekernelNames == {"prekernel.bin", "prekernel.bin.old"}

(* What the file "c" in "sub" may be called.                               *)
MCLastNames == {"c", "kernel.bin", "prekernel.bin.old"}
MCTrees ==
    {[entries |-> (Root :> o @@ "sub" :> s),
      blocks |-> [f \in MCFiles \cup {s[i] : i \in DOMAIN s} |->
                    CASE f = "prekernel.bin" -> 2 [] f = "kernel.bin" -> k [] f = "a" -> a [] OTHER -> 1],
      d_name |-> ("c" :> last @@ [n \in MCFiles \cup {"sub"} |-> n])] :
        o \in MCOrders, s \in {<<>>, <<"c">>}, last \in MCLastNames,
        k \in {1, 3, 7}, a \in {0, 1, 3}}
=============================================================================
