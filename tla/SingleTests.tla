------------------------------ MODULE SingleTests -----------------------------
(***************************************************************************)
(* The driver of the vendor's single-test menu (engine/single_test.py) over *)
(* an interactive shell (engine/interactive.py).  The node shows a main     *)
(* menu; its FAT entry leads to the numbered list of tests; a test prints   *)
(* its verdict and ends in either menu.  The driver sees only what the      *)
(* shell printed, the echo of what it sent among it, and sends only         *)
(* numbers: where it stands it must read off the last output, and that the  *)
(* node is done it tells from three seconds' silence, which may fall        *)
(* anywhere, in the middle of a test or before a menu is shown.             *)
(***************************************************************************)
EXTENDS Naturals, Sequences, SequencesExt

CONSTANTS
    Labels,        \* the tests
    Numberings,    \* the lists a launch may show: sequences of labels
    MaxRuns, MaxLaunches   \* bounds

(* What the constants must satisfy, assumed by Channels                   *)
SingleTestsAssumption ==
    /\ \A n \in Numberings : n \in Seq(Labels) /\ IsInjective(n)
    /\ MaxRuns \in Nat /\ MaxLaunches \in Nat

FAT == 2       \* the number of the FAT entry of the main menu
NoTest == "none"

VARIABLES
    node,      \* [alive, at, list, test, out, in, launched]
    driver     \* [at, want, number, next, tests, last, runs], and as history
               \* [relaunched, early]: whether the run on the way launched the
               \* script again, and whether a read since the launch fell short

vars == <<node, driver>>

Shows(output, kind) == \E i \in DOMAIN output : output[i].kind = kind

(* A piece of output: an echo, a menu, or what a test printed.             *)
Echo == [kind |-> "echo", of |-> NoTest, list |-> <<>>]
MainMenu == [kind |-> "main", of |-> NoTest, list |-> <<>>]
FatMenu(list) == [kind |-> "fat", of |-> NoTest, list |-> list]
Printed(test, verdict) == [kind |-> verdict, of |-> test, list |-> <<>>]

Init ==
    /\ node = [alive |-> FALSE, at |-> "none", list |-> <<>>, test |-> NoTest,
               out |-> <<>>, in |-> <<>>, launched |-> 0]
    /\ driver = [at |-> "idle", want |-> NoTest, number |-> 0, next |-> "idle",
                 tests |-> <<>>, last |-> <<>>, runs |-> <<>>,
               relaunched |-> FALSE, early |-> FALSE]

-----------------------------------------------------------------------------
(* The node.                                                               *)

ShowsMenu ==
    /\ node.alive /\ node.at = "starting"
    /\ node' = [node EXCEPT !.at = "main", !.out = Append(@, MainMenu)]
    /\ UNCHANGED driver

(* Another entry of the main menu leads back to it.                        *)
TakesNumber ==
    /\ node.alive /\ node.in # <<>> /\ node.at \in {"main", "fat"}
    /\ LET n == Head(node.in)
           rest == [node EXCEPT !.in = Tail(@)]
       IN node' =
            IF node.at = "main"
            THEN IF n = FAT THEN [rest EXCEPT !.at = "fat", !.out = Append(@, FatMenu(node.list))]
                 ELSE [rest EXCEPT !.out = Append(@, MainMenu)]
            ELSE IF n \in DOMAIN node.list THEN [rest EXCEPT !.at = "test", !.test = node.list[n]]
                 ELSE [rest EXCEPT !.out = Append(@, FatMenu(node.list))]
    /\ UNCHANGED driver

Speaks ==
    /\ node.alive /\ node.at = "test" /\ ~Shows(node.out, "...")
    /\ node' = [node EXCEPT !.out = Append(@, Printed(node.test, "..."))]
    /\ UNCHANGED driver

(* A test may show the list once more before it falls back to main.         *)
EndsTest(verdict, back) ==
    /\ node.alive /\ node.at = "test"
    /\ LET ended == Append(node.out, Printed(node.test, verdict))
           listed == IF back = "main" THEN ended ELSE Append(ended, FatMenu(node.list))
       IN node' = [node EXCEPT
                     !.at = IF back = "list" THEN "fat" ELSE "main", !.test = NoTest,
                     !.out = IF back = "list" THEN listed ELSE Append(listed, MainMenu)]
    /\ UNCHANGED driver

Dies ==
    /\ node.alive
    /\ node' = [node EXCEPT !.alive = FALSE, !.in = <<>>]
    /\ UNCHANGED driver

-----------------------------------------------------------------------------
(* The shell.                                                              *)

(* read_until_quiet returns when the node has been silent for a while with  *)
(* something read, an echo if nothing else, or when the channel is closed;  *)
(* it falls short if the node was not waiting for a number by then.         *)
Waits == node.at \in {"main", "fat"} /\ node.in = <<>>

Drained == [node EXCEPT !.out = <<>>]

-----------------------------------------------------------------------------
(* The driver.                                                             *)

(* _parse_menu: the numbered lines of an output.                           *)
ListOf(output) ==
    LET menus == {i \in DOMAIN output : output[i].kind = "fat"}
        first == CHOOSE i \in menus : \A j \in menus : i <= j
    IN IF menus = {} THEN <<>> ELSE output[first].list

Verdict(output) ==
    IF Shows(output, "fail") THEN "fail" ELSE IF Shows(output, "pass") THEN "pass" ELSE "unknown"

(* run_test: the label is looked up in the list known, and its number kept. *)
RunTest(label) ==
    /\ driver.at = "idle" /\ driver.tests # <<>> /\ Len(driver.runs) < MaxRuns
    /\ label \in ToSet(driver.tests)
    /\ driver' = [driver EXCEPT
                    !.at = "place", !.want = label,
                    !.number = CHOOSE n \in DOMAIN driver.tests : driver.tests[n] = label,
                    !.relaunched = FALSE]
    /\ UNCHANGED node

(* _launch: the shell is replaced and the script started in it.            *)
LaunchFor(next) ==
    /\ node.launched < MaxLaunches
    /\ \E list \in Numberings :
          node' = [alive |-> TRUE, at |-> "starting", list |-> list, test |-> NoTest,
                   out |-> <<Echo>>, in |-> <<>>, launched |-> node.launched + 1]
    /\ driver' = [driver EXCEPT !.at = "main menu", !.next = next, !.early = FALSE,
                                !.relaunched = next = "send"]

Discover ==
    /\ driver.at = "idle"
    /\ LaunchFor("idle")

(* What is sent is echoed; a send on a closed channel raises out of the     *)
(* driver.                                                                 *)
Send(number, at) ==
    \/ /\ node.alive
       /\ node' = [node EXCEPT !.in = Append(@, number), !.out = Append(@, Echo)]
       /\ driver' = [driver EXCEPT !.at = at]
    \/ /\ ~node.alive
       /\ driver' = [driver EXCEPT !.at = "idle"]
       /\ UNCHANGED node

(* What was read last, and whether it fell short.                          *)
Read == [driver EXCEPT !.last = node.out, !.early = @ \/ ~Waits]

ReadMainMenu ==
    /\ driver.at = "main menu"
    /\ node' = Drained
    /\ driver' = [Read EXCEPT
                    !.at = IF Shows(node.out, "main") THEN "choose" ELSE "idle"]

ChooseFat ==
    /\ driver.at = "choose"
    /\ Send(FAT, "list")

ReadList ==
    /\ driver.at = "list"
    /\ node' = Drained
    /\ driver' = [Read EXCEPT !.tests = ListOf(node.out), !.at = driver.next]

(* faulty: taken to be where the last launch left it.                      *)
PlaceUnread ==
    /\ driver.at = "place"
    /\ IF node.alive THEN /\ driver' = [driver EXCEPT !.at = "send"]
                          /\ UNCHANGED node
       ELSE LaunchFor("send")

(* _ensure_fat_menu: one of the tests is on the screen, or else the main    *)
(* menu is, or else the script is launched again; the number looked up      *)
(* before is kept.                                                         *)
ShowsTests(output) ==
    \E i \in DOMAIN output :
        output[i].kind = "fat" /\ ToSet(output[i].list) \cap ToSet(driver.tests) # {}

EnsureFatMenu ==
    /\ driver.at = "place"
    /\ \/ /\ node.alive /\ ShowsTests(driver.last)
          /\ driver' = [driver EXCEPT !.at = "send"]
          /\ UNCHANGED node
       \/ /\ node.alive /\ ~ShowsTests(driver.last) /\ Shows(driver.last, "main")
          /\ Send(FAT, "back")
       \/ /\ ~node.alive \/ (~ShowsTests(driver.last) /\ ~Shows(driver.last, "main"))
          /\ LaunchFor("send")

ReadBack ==
    /\ driver.at = "back"
    /\ node' = Drained
    /\ driver' = [Read EXCEPT !.at = "send"]

SendNumber ==
    /\ driver.at = "send"
    /\ Send(driver.number, "read")

(* The test that has the number sent in the list the node shows.           *)
There == IF driver.number \in DOMAIN node.list THEN node.list[driver.number] ELSE NoTest

Ambiguous(output) == Shows(output, "fat") /\ Shows(output, "main")

(* The output up to the silence is that of the test; its verdict and what   *)
(* menu it ends in are read off it.                                        *)
Report ==
    /\ driver.at = "read"
    /\ node' = Drained
    /\ driver' = [Read EXCEPT
                    !.at = "idle",
                    !.runs = Append(@, [test |-> driver.want, verdict |-> Verdict(node.out),
                                        heard |-> {node.out[i].of : i \in DOMAIN node.out},
                                        there |-> There, early |-> driver.early,
                                        relaunched |-> driver.relaunched,
                                        done |-> node.alive /\ Waits,
                                        placed |-> ~Ambiguous(driver.last)])]

Next ==
    \/ ShowsMenu \/ TakesNumber \/ Speaks \/ Dies
    \/ \E verdict \in {"pass", "fail"}, back \in {"main", "list", "both"} : EndsTest(verdict, back)
    \/ \E label \in Labels : RunTest(label)
    \/ Discover \/ ReadMainMenu \/ ChooseFat \/ ReadList
    \/ EnsureFatMenu \/ ReadBack \/ SendNumber \/ Report

Spec == Init /\ [][Next]_vars

-----------------------------------------------------------------------------
TypeOK ==
    /\ node.at \in {"none", "starting", "main", "fat", "test"}
    /\ node.test \in Labels \cup {NoTest} /\ (node.test = NoTest) = (node.at # "test")
    /\ driver.at \in {"idle", "main menu", "choose", "list", "place", "back", "send", "read"}
    /\ driver.want \in Labels \cup {NoTest}
    /\ \A i \in DOMAIN driver.runs : driver.runs[i].verdict \in {"pass", "fail", "unknown"}

(* A result is about the test it names.  Unless a read since the launch     *)
(* fell short, so that the node had more to say: what was read is of the    *)
(* test that has the number sent, a verdict is its verdict, and that is the *)
(* test asked for unless the script was launched again for this very run    *)
(* (the number was looked up before, and the new list may number otherwise); *)
(* and there is a verdict if the node was done by then and the output that  *)
(* told where it stood showed one menu only.                               *)
RanWhatItSays ==
    \A i \in DOMAIN driver.runs :
        LET run == driver.runs[i]
        IN ~run.early =>
              /\ run.heard \subseteq {run.there, NoTest}
              /\ run.verdict # "unknown" => run.there \in run.heard
              /\ run.there = run.test \/ run.relaunched
              /\ run.verdict = "unknown" =>
                    ~run.done \/ ~run.placed \/ run.there = NoTest

(* A test is run by its exact label ("Run a single test by exact label;     *)
(* returns the captured output", run_test).  It is not so: the number goes  *)
(* to whatever list there is after the script was launched again, and a     *)
(* read that fell short leaves the output of one test to the next.          *)
RunsTheLabelAsked ==
    \A i \in DOMAIN driver.runs :
        driver.runs[i].heard \subseteq {driver.runs[i].test, NoTest}

(* A number is sent when the list is up ("Re-establish position at the FAT  *)
(* submenu (it may loop back anywhere)", _ensure_fat_menu).  It is not so   *)
(* when a test shows the list and falls back to the main menu at once.      *)
ListIsUpWhenSent ==
    (driver.at = "send" /\ node.alive /\ ~driver.early) => node.at = "fat"
=============================================================================
