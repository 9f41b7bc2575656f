----------------------------- MODULE JsonRequests ----------------------------
(***************************************************************************)
(* The requests of the JSON interface: what hyperion-remote and other      *)
(* clients send, the JSON text they send it as, and the schemas that the   *)
(* server holds it against (libsrc/jsonserver/schema).                     *)
(*                                                                         *)
(* A request is a record of its command, its priority (0 where it has      *)
(* none) and its option, the one argument that the server's handler looks  *)
(* at.  What the other arguments are does not matter to the model.         *)
(***************************************************************************)
EXTENDS JsonValues, TLC

CONSTANT EffectForms   \* the arguments of create-effect requests, by a key

Request(command, priority, option) ==
    [command |-> command, priority |-> priority, option |-> option]

ColorRequest(p, color)     == Request("color", p, color)
ImageRequest(p, color)     == Request("image", p, color)
EffectRequest(p)           == Request("effect", p, "")
CreateEffectRequest(form)  == Request("create-effect", 0, form)
DeleteEffectRequest(name)  == Request("delete-effect", 0, name)
ServerInfoRequest          == Request("serverinfo", 0, "")
ClearRequest(p)            == Request("clear", p, "")
ClearAllRequest            == Request("clearall", 0, "")
ComponentRequest(state)    == Request("componentstate", 0, state)
SelectRequest(p)           == Request("sourceselect", p, "priority")
SelectAutoRequest          == Request("sourceselect", 0, "auto")
ConfigRequest(sub)         == Request("config", 0, sub)
AdjustmentRequest(id)      == Request("adjustment", 0, id)
ProcessingRequest          == Request("processing", 0, "")
LedColorsRequest(sub)      == Request("ledcolors", 0, sub)
LoggingRequest(sub)        == Request("logging", 0, sub)

(* The setconfig of hyperion-remote, which the server's schema refuses.    *)
SetConfigRequest           == Request("config", 0, "setconfig")

(* A text that is no JSON, which is refused as one without a command is.   *)
GarbageRequest             == Request("garbage", 0, "")

(* The handshake of a websocket, and its frames other than a text: a ping, *)
(* a close, the first one of several (without the final bit), and those of *)
(* a kind that the server does not know.                                   *)
UpgradeRequest             == Request("upgrade", 0, "")
PingFrame                  == Request("ping", 0, "")
CloseFrame                 == Request("close", 0, "")
FragmentFrame              == Request("fragment", 0, "")
OtherFrame                 == Request("other", 0, "")

IsFrame(r) == r.command \in {"ping", "close", "fragment", "other"}

-----------------------------------------------------------------------------
(* The JSON text of a request, without tan and duration.                   *)
Arguments(r) ==
    LET priority == [priority |-> Num(r.priority)]
        option   == Str(r.option)
        rgb      == Arr(<<Num(255), Num(128), Num(0)>>)
    IN CASE r.command = "color"         -> priority @@ [color |-> rgb]
         [] r.command = "image"         -> priority @@ [imagewidth |-> Num(1), imageheight |-> Num(1),
                                                        imagedata |-> option]
         [] r.command = "effect"        -> priority @@ [effect |-> Obj([name |-> Str("Rainbow")])]
         [] r.command = "create-effect" -> EffectForms[r.option]
         [] r.command = "delete-effect" -> [name |-> option]
         [] r.command = "clear"         -> priority
         [] r.command = "sourceselect"  ->
                IF r.option = "auto" THEN [auto |-> Bool(TRUE)] ELSE priority
         [] r.command = "config"        -> [subcommand |-> option]
         [] r.command = "componentstate" ->
                [componentstate |-> Obj([component |-> Str("FORWARDER"),
                                         state     |-> Bool(r.option = "on")])]
         [] r.command = "adjustment"    -> [adjustment |-> Obj([id |-> option, red |-> rgb])]
         [] r.command = "processing"    -> [mappingType |-> Str("unicolor_mean")]
         [] r.command \in {"ledcolors", "logging"} -> [subcommand |-> option]
         [] OTHER                       -> [name \in {} |-> option]

Message(r) == Obj(Arguments(r) @@ [command |-> Str(r.command)])

-----------------------------------------------------------------------------
(* The schemas.                                                            *)
Optional(type) == [type |-> type]
Required(type) == [type |-> type, required |-> TRUE]

Ranged(schema, least, most) == schema @@ [minimum |-> 10 * least, maximum |-> 10 * most]

OneOf(texts) ==
    [type |-> "string", required |-> TRUE, enum |-> [i \in DOMAIN texts |-> Str(texts[i])]]

ObjectSchema(properties) ==
    [type |-> "object", required |-> TRUE, properties |-> properties,
     additionalProperties |-> FALSE]

ChannelSchema == Ranged(Required("integer"), 1, 253)

RgbSchema ==
    [type |-> "array", items |-> Ranged(Optional("integer"), 0, 255),
     minItems |-> 3, maxItems |-> 3]

AdjustmentSchema ==
    LET rgb      == {"red", "green", "blue", "yellow", "magenta", "cyan", "black", "white"}
        gamma    == {"gammaRed", "gammaGreen", "gammaBlue"}
        fraction == {"backlightThreshold", "brightness"}
    IN ObjectSchema([p \in rgb |-> RgbSchema]
           @@ [p \in gamma |-> Ranged(Optional("number"), 0, 100)]
           @@ [p \in fraction |-> Ranged(Optional("number"), 0, 1)]
           @@ [id |-> Optional("string"), backlightColored |-> Optional("boolean")])

ComponentNames ==
    <<"SMOOTHING", "BLACKBORDER", "KODICHECKER", "FORWARDER", "UDPLISTENER",
      "BOBLIGHTSERVER", "GRABBER", "V4L">>

Stream == [oneshot |-> Optional("bool"), interval |-> Optional("integer")]

(* The arguments that each command may have and must have.                 *)
Schemas ==
    ("color" :> [priority |-> ChannelSchema, duration |-> Optional("integer"),
                 color |-> Required("array") @@ [items |-> Optional("integer"), minItems |-> 3]])
    @@ ("image" :> [priority |-> ChannelSchema, duration |-> Optional("integer"),
                    imagewidth |-> Required("integer") @@ [minimum |-> 0],
                    imageheight |-> Required("integer") @@ [minimum |-> 0],
                    imagedata |-> Required("string")])
    @@ ("effect" :> [priority |-> ChannelSchema, duration |-> Optional("integer"),
                     effect |-> ObjectSchema([name |-> Required("string"),
                                              args |-> Optional("object")]),
                     pythonScript |-> Optional("string")])
    @@ ("create-effect" :> [name |-> Required("string"), script |-> Required("string"),
                            args |-> Required("object")])
    @@ ("delete-effect" :> [name |-> Required("string")])
    @@ [command \in {"serverinfo", "clearall"} |-> [p \in {} |-> Optional("any")]]
    @@ ("clear" :> [priority |-> ChannelSchema])
    @@ ("adjustment" :> [adjustment |-> AdjustmentSchema])
    @@ ("sourceselect" :> [priority |-> Ranged(Optional("integer"), 0, 255),
                           auto |-> Optional("boolean")])
    @@ ("config" :> [subcommand |-> OneOf(<<"getconfig", "getschema", "reload">>),
                     config |-> Optional("object")])
    @@ ("componentstate" :> [componentstate |->
            ObjectSchema([component |-> OneOf(ComponentNames), state |-> Required("bool")])])
    @@ ("ledcolors" :> (Stream @@ [subcommand |-> OneOf(<<"ledstream-stop", "ledstream-start",
                                      "testled", "imagestream-start", "imagestream-stop">>)]))
    @@ ("logging" :> (Stream @@ [subcommand |-> OneOf(<<"stop", "start", "update">>)]))
    @@ ("processing" :> [mappingType |-> [type |-> "string",
                                          enum |-> <<Str("multicolor_mean"), Str("unicolor_mean")>>]])

SchemaOf(command) ==
    ObjectSchema(Schemas[command] @@ [command |-> OneOf(<<command>>), tan |-> Optional("integer")])

(* The two checks of handleMessage: that the command is a known one, and   *)
(* that the arguments are those of its schema.                             *)
IsAccepted(r) == r.command \in DOMAIN Schemas /\ IsValid(Message(r), SchemaOf(r.command))

==============================================================================
