---------------------------- MODULE MC_JsonServer ----------------------------
(* Constants for model checking JsonServer: the requests a client sends,   *)
(* with one channel and one colour.  On the disk are a built-in effect, a  *)
(* user's effect of the same name, a disabled one, and a file that is no   *)
(* effect.  Of the requests that only get their answer (effect,            *)
(* processing, serverinfo, config) or that are refused, a colour for       *)
(* channel 0 is enough; clearall, the automatic source and an adjustment   *)
(* that exists differ from those sent in what they do to the core only.    *)
(* On a websocket are the streams that have a timer and the log, a         *)
(* colour, and a ping; the other frames come up where one is misread.      *)
EXTENDS JsonServer, JsonSchema

MCPriorities == {1}
MCColors     == {"red"}
MCPaths      == <<"/custom", "/missing">>
MCSymmetry   == Permutations(Clients)

Script == <<":", "", "rainbow.py">>

MCEffect(name, speed) ==
    [name |-> Str(name), script |-> Str(Script), args |-> Obj([speed |-> speed])]

MCDisk ==
    (":/effects/" :> [effects |-> <<EffectFile(<<"rainbow", 0>>, Obj(MCEffect("Rainbow", Num(1)))),
                                    EffectFile(<<"strobe", 0>>, Obj(MCEffect("Strobe", Num(1))))>>,
                      schemas |-> <<[script |-> <<"", "", "rainbow.py">>,
                                     schema |-> ObjectSchema([speed |->
                                                    Ranged(Required("number"), 0, 5)])]>>,
                      scripts |-> {"rainbow.py"}])
    @@ ("/custom" :> [effects |-> <<EffectFile(<<"empty", 0>>, Obj([name \in {} |-> Str("")])),
                                    EffectFile(<<"other", 0>>, Obj(MCEffect("Rainbow", Num(2))))>>,
                      schemas |-> <<>>,
                      scripts |-> {}])

MCForms == [mine |-> MCEffect("Mine", Num(3)), rainbow |-> MCEffect("Rainbow", Num(4))]

MCRequests ==
    {ColorRequest(1, "red"), ImageRequest(1, "red"), ColorRequest(0, "red"),
     CreateEffectRequest("mine"), CreateEffectRequest("rainbow"),
     DeleteEffectRequest("Rainbow"),
     ClearRequest(1), SelectRequest(1), ConfigRequest("reload"),
     AdjustmentRequest("unknown"),
     LoggingRequest("start"), LoggingRequest("stop"), PingFrame}
    \cup {ComponentRequest(state) : state \in {"on", "off"}}
    \cup {LedColorsRequest(sub) : sub \in {"ledstream-start", "ledstream-stop",
                                           "imagestream-start", "imagestream-stop"}}

MCWebRequests ==
    {ColorRequest(1, "red"), LoggingRequest("start"), LoggingRequest("stop"),
     LedColorsRequest("ledstream-start"), LedColorsRequest("ledstream-stop"), PingFrame}

==============================================================================
