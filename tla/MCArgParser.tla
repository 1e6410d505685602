------------------------------- MODULE MCArgParser -------------------------------
(* Small instances of ArgParser for TLC. *)
EXTENDS ArgParser

\* Stacks that overlap, that take a message or not, that repeat a letter, and an unknown letter.
MCStack == ("-u" :> <<"u">>) @@ ("-si" :> <<"s", "i">>) @@ ("-ut" :> <<"u", "t">>)
           @@ ("-aa" :> <<"a", "a">>) @@ ("-5" :> <<"5">>)

\* strtol reads the empty argument as 0.
MCNumber == ("" :> 0) @@ ("7" :> 7) @@ ("256" :> 256) @@ ("-5" :> -5)

MCWord == {"", "7", "256", "SPI", "get", "export"}
MCToken == DOMAIN MCStack \cup MCWord \cup {"-n", "-h", "--all", "-"}

\* The arguments of the documented example (src/README.md:118).
MCExampleStack == ("-uit" :> <<"u", "i", "t">>) @@ ("-s" :> <<"s">>)
MCExampleWord == {"SPI"}
MCExample == DOMAIN MCExampleStack \cup MCExampleWord
MCNoNumber == << >>
=============================================================================
