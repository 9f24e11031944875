------------------------------- MODULE Upload -------------------------------
(***************************************************************************)
(* Loading the debugger (dbgupload.py): the script, HBOOT, the preloader   *)
(* that takes the place of HBOOT's "oem" command, and the debugger that    *)
(* takes the place of "oem" and "keytest" in the end, over the line of     *)
(* HostLink; then commands to the debugger (hbootdbg.py).                  *)
(***************************************************************************)
EXTENDS HostLink

CONSTANTS
  MaxRuns,       \* bound on the times the script is started
  Commands,      \* commands to the debugger after the upload
  MaxCommands    \* bound on their number, over all runs

ASSUME UploadAssumption ==
  /\ MaxRuns \in Nat /\ MaxCommands \in Nat
  /\ Commands \subseteq {"attach", "read", "call"}

VARIABLES
  target,     \* the target's memory, as far as it matters here
  script,     \* the last step the script has taken, or how it ended
  version0,   \* what it has read of HBOOT's version
  runs,       \* how often it has been started
  commands,   \* how many commands have followed
  refused     \* history: this target has refused a download

uploadVars == <<linkVars, target, script, version0, runs, commands, refused>>

(* The target after a reset.  A hook holds what has been copied to it.     *)
Fresh == [version |-> "vision", buffer |-> "nothing",
          oem |-> "hboot", keytest |-> "hboot", payload |-> "nothing"]

(***************************************************************************)
(* The script: its requests in order.                                      *)
(***************************************************************************)
Step(op, what) == [op |-> op, what |-> what]

(* Plausible slips: hooks patched before the debugger is there, and a      *)
(* check that passes for any answer.                                       *)
PatchFirst ==
  <<Step("getvar", "version"), Step("getvar", "product"),
    Step("download", "preloader"), Step("getvar", "main"), Step("getvar", "version"),
    Step("download", "patch"), Step("oem", "keytest"),
    Step("download", "debugger"), Step("oem", "payload"),
    Step("download", "patch"), Step("oem", "oem")>>
AnyAnswer(got) == got # <<>>

(* dbg_write_memory is a download and the preloader's command to copy it.  *)
main ==
  <<Step("getvar", "version"), Step("getvar", "product"),     \* get_hboot_version
    Step("download", "preloader"),                            \* copy_preloader
    Step("getvar", "main"),                                   \* trigger
    Step("getvar", "version"),                                \* check_exploit_result
    Step("download", "debugger"), Step("oem", "payload"),     \* copy_hbootdbg
    Step("download", "patch"), Step("oem", "keytest"),        \* patch_cmds
    Step("download", "patch"), Step("oem", "oem")>>

Done    == Len(main) + 1
Gone    == -1
Running == script \in 0 .. Len(main)

(* What the script looks at: the version and the product, which together   *)
(* have to be a known device, and then the version.                        *)
Texts(got) == [k \in DOMAIN got |-> got[k].says]
get_hboot_version(product) == version0 = <<"vision">> /\ product = <<"product">>
check_exploit_result(got)  == got = <<"HACK">>

Accepts ==
  /\ script = 2 => get_hboot_version(Texts(answer.got))
  /\ script = 5 => check_exploit_result(Texts(answer.got))

Request(step) ==
  \/ step.op = "getvar"   /\ getvar(step.what)
  \/ step.op = "download" /\ download_data(step.what)
  \/ step.op = "oem"      /\ preloader(step.what)

NextStep ==
  /\ script \in 0 .. Len(main) - 1 /\ client = Ready /\ Accepts
  /\ Request(main[script + 1])
  /\ script' = script + 1
  /\ version0' = IF script = 1 THEN Texts(answer.got) ELSE version0
  /\ UNCHANGED <<target, runs, commands, refused>>

(* The results of the other steps are not looked at.                       *)
EndOfScript ==
  /\ Running /\ client = Ready
  /\ script = Len(main) \/ ~Accepts
  /\ script' = IF Accepts THEN Done ELSE Gone
  /\ UNCHANGED <<linkVars, target, version0, runs, commands, refused>>

(* The user starts it, again perhaps, on whatever the target is by now.    *)
(* Opening the line may discard what has arrived.                          *)
StartScript ==
  /\ ~Running /\ client = Ready /\ runs < MaxRuns
  /\ script' = 0
  /\ version0' = <<>>
  /\ runs' = runs + 1
  /\ replies' \in {<<>>, replies}
  /\ answer' = NoAnswer
  /\ UNCHANGED <<requests, outgoing, client, sent, said, target, commands, refused>>

Debug(cmd) ==
  /\ script = Done /\ commands < MaxCommands
  /\ hbootdbg(cmd)
  /\ commands' = commands + 1
  /\ UNCHANGED <<target, script, version0, runs, refused>>

Reads ==
  /\ ReadSome \/ ReadNothing
  /\ UNCHANGED <<target, script, version0, runs, commands, refused>>

-----------------------------------------------------------------------------
(***************************************************************************)
(* The target: what it does with the request at the head of the queue.     *)
(***************************************************************************)
Asked(op, what) ==
  requests # <<>> /\ Head(requests).asks.op = op /\ Head(requests).asks.what = what

Handle(contents, target_) ==
  /\ TakeUp(contents)
  /\ target' = target_
  /\ UNCHANGED <<script, version0, runs, commands>>

GetVersion == Asked("getvar", "version") /\ Handle(<<target.version>>, target) /\ UNCHANGED refused
GetProduct == Asked("getvar", "product") /\ Handle(<<"product">>, target) /\ UNCHANGED refused

(* HBOOT may run the preloader here; it then replies or not.               *)
replace_version(t)          == [t EXCEPT !.version = "HACK"]
copy_preloader_functions(t) == t    \* its place overlaps nothing of the model
hook_fb_cmd_oem(t)          == [t EXCEPT !.oem = "preloader"]
entrypoint_preloader ==
  /\ Asked("getvar", "main") /\ target.buffer = "preloader"
  /\ \E contents \in {<<>>, <<"main">>} :
       Handle(contents, hook_fb_cmd_oem(copy_preloader_functions(replace_version(target))))
  /\ UNCHANGED refused
GetMain == Asked("getvar", "main") /\ Handle(<<"main">>, target) /\ UNCHANGED refused

Download(data) ==
  /\ Asked("download", data)
  /\ \/ Handle(<<"DATA", "OKAY">>, [target EXCEPT !.buffer = data]) /\ UNCHANGED refused
     \/ Handle(<<"FAIL">>, target) /\ refused' = TRUE

(* The "oem" command once it is no longer HBOOT's own, which nobody asks   *)
(* for here: the preloader's, which copies the download buffer or replies  *)
(* that it does not know the command ...                                   *)
cmd_write_memory(dest) ==
  /\ dest \in {"payload", "keytest", "oem"}
  /\ Handle(<<"success">>, [target EXCEPT ![dest] = target.buffer])
cmd_default(what) ==
  what \in Commands /\ Handle(<<"not found">>, target)
my_fb_cmd_oem_dbg(what) ==
  /\ Asked("oem", what) /\ target.oem = "preloader"
  /\ cmd_write_memory(what) \/ cmd_default(what)
  /\ UNCHANGED refused

(* ... or the debugger's.  If its hook leads anywhere else the target is   *)
(* lost, and answers no more.                                              *)
Says == [attach |-> <<"attach">>, read |-> <<"read", "block">>, call |-> <<>>]
OemOfDebugger(what) ==
  /\ Asked("oem", what) /\ target.oem = "patch" /\ target.payload = "debugger"
  /\ Handle(IF what \in Commands THEN Says[what] ELSE <<"unknown">>, target)
  /\ UNCHANGED refused

Sends == SendPart /\ UNCHANGED <<target, script, version0, runs, commands, refused>>

(* The user resets the target; the line breaks, and the script with it.    *)
PowerCycle ==
  /\ target' = Fresh
  /\ requests' = <<>> /\ outgoing' = <<>> /\ replies' = <<>>
  /\ client' = Ready /\ answer' = NoAnswer
  /\ script' = Gone
  /\ sent' = 0 /\ said' = <<>> /\ version0' = <<>>
  /\ refused' = FALSE
  /\ UNCHANGED <<runs, commands>>

UploadInit ==
  /\ LinkInit
  /\ target = Fresh
  /\ script = Gone /\ version0 = <<>> /\ runs = 0 /\ commands = 0
  /\ refused = FALSE

Host == NextStep \/ EndOfScript \/ Reads

UploadNext ==
  \/ Host
  \/ StartScript
  \/ \E cmd \in Commands : Debug(cmd)
  \/ GetVersion \/ GetProduct \/ GetMain \/ entrypoint_preloader
  \/ \E data \in {"preloader", "debugger", "patch"} : Download(data)
  \/ \E what \in {"payload", "keytest", "oem"} \cup Commands :
       my_fb_cmd_oem_dbg(what) \/ OemOfDebugger(what)
  \/ Sends
  \/ PowerCycle

(* The script goes on by itself; nothing is assumed of the target.         *)
UploadSpec == UploadInit /\ [][UploadNext]_uploadVars /\ WF_uploadVars(Host)

-----------------------------------------------------------------------------
(***************************************************************************)
(* Properties.                                                             *)
(***************************************************************************)
(* A hook that has been patched leads to the debugger, whole: however late *)
(* replies are, and although the script looks at none of them any more by  *)
(* then (dbgupload.py:153-182), for a target that takes every download.    *)
(* "oem", the way back to the preloader, is the last to be patched.        *)
HooksLeadToDebugger ==
  ~refused =>
    /\ target.keytest \in {"hboot", "patch"} /\ target.oem \in {"hboot", "preloader", "patch"}
    /\ target.keytest = "patch" => target.payload = "debugger"
    /\ target.oem = "patch" => target.keytest = "patch"

(* A script that goes on behind its check of the version has the preloader *)
(* to talk to: the check cannot be passed by an answer that was meant for  *)
(* another question (dbgupload.py:145-147), be it one of an earlier run.   *)
(* When it has come to its end, and the target to the end of its requests, *)
(* the debugger is installed, unless the target has refused a download:    *)
(* the script does not look (dbgupload.py:156), and goes on to its end.    *)
DoneMeansInstalled ==
  /\ script > 5 => target.version = "HACK"
  /\ script = Done /\ requests = <<>> /\ ~refused =>
       target.oem = "patch" /\ target.keytest = "patch" /\ target.payload = "debugger"

(* The script ends, whether the target answers or not: no read waits for   *)
(* more than 0.1 s (hboot.py:40), and a line that has gone silent ends a   *)
(* reply (hboot.py:89-93).                                                 *)
UploadEnds == Running ~> ~Running
=============================================================================
