----------------------------- MODULE EffectFiles -----------------------------
(***************************************************************************)
(* The effect files: which effects the program offers (readEffects of the  *)
(* effect engine), and how JSON clients create and delete effects of their *)
(* own.                                                                    *)
(*                                                                         *)
(* The disk is a function from the directories that exist to their         *)
(* contents:                                                               *)
(*   effects   the JSON files, in the order of their names                 *)
(*   schemas   those of the schema/ directory below                        *)
(*   scripts   the Python files                                            *)
(* A JSON file of an effect is its base name (a text and a number) and its *)
(* JSON value; one that is no JSON is read as an empty object.  That of a  *)
(* schema is the script it is for and the schema.                          *)
(*                                                                         *)
(* The name of a script is the triple of its directory, the separator and  *)
(* its base name, so that ":x" is <<":", "", "x">> and "/p/x" is           *)
(* <<"/p", "/", "x">>.  An absolute name is that of an existing file, and  *)
(* a relative one is not that of a file in the current directory.          *)
(***************************************************************************)
EXTENDS JsonValues

CONSTANTS
    Resources,        \* the path of the built-in effects, ":/effects/"
    EffectPaths,      \* effects.paths of the configuration
    DisabledEffects   \* effects.disable of the configuration

EffectFile(base, json) == [base |-> base, json |-> json]

Relative(script)   == script[1] = ""
InResource(script) == script[1] = ":"

EffectSchema ==
    [type |-> "object", required |-> TRUE, additionalProperties |-> FALSE,
     properties |-> [name   |-> [type |-> "string", required |-> TRUE],
                     script |-> [type |-> "string", required |-> TRUE],
                     args   |-> [type |-> "object", required |-> TRUE]]]

NoScript == <<"", "", "">>

LoadsAsDefinition(file) ==
    /\ IsValid(file.json, EffectSchema)
    /\ file.json.object.script.string # NoScript

LoadEffectDefinition(path, file) ==
    LET config == file.json.object
        script == config.script.string
    IN [name   |-> config.name.string,
        file   |-> <<path, file.base>>,
        script |-> CASE InResource(script) -> <<Resources, "", script[3]>>
                     [] Relative(script)   -> <<path, "/", script[3]>>
                     [] OTHER              -> script,
        args   |-> config.args]

(* A schema is loaded if its script is one of the directory's.             *)
LoadsAsSchema(file, scripts) == Relative(file.script) /\ file.script[3] \in scripts

LoadEffectSchema(path, file) ==
    [pyFile |-> <<path, "/", file.script[3]>>, schema |-> file.schema]

(* The directories that are searched, the built-in one first.              *)
EffectPathList(disk) ==
    SelectSeq(<<Resources>> \o EffectPaths, LAMBDA path : path \in DOMAIN disk)

EffectDefinitions(disk) ==
    LET load(path) == LET loads == SelectSeq(disk[path].effects, LoadsAsDefinition)
                      IN [i \in DOMAIN loads |-> LoadEffectDefinition(path, loads[i])]
        paths == EffectPathList(disk)
    IN FlattenSeq([i \in DOMAIN paths |-> load(paths[i])])

(* readEffects: of the definitions of a name, the last one is taken.       *)
AvailableEffects(disk) ==
    LET all   == EffectDefinitions(disk)
        names == {all[i].name : i \in DOMAIN all} \ DisabledEffects
    IN [name \in names |-> all[Max({i \in DOMAIN all : all[i].name = name})]]

EffectSchemas(disk) ==
    LET load(path) == LET loads == SelectSeq(disk[path].schemas,
                                       LAMBDA file : LoadsAsSchema(file, disk[path].scripts))
                      IN [i \in DOMAIN loads |-> LoadEffectSchema(path, loads[i])]
        paths == EffectPathList(disk)
    IN FlattenSeq([i \in DOMAIN paths |-> load(paths[i])])

-----------------------------------------------------------------------------
(* What create-effect demands, in the order it is checked: arguments, a    *)
(* schema for the script that accepts them, a directory to write to, a     *)
(* name that may be that of a file, and that is not of a built-in effect.  *)
BadNames == {"", ".hidden"}

PyFileOf(script) == IF InResource(script) THEN <<Resources, "/", script[3]>> ELSE script

SchemasFor(disk, script) ==
    SelectSeq(EffectSchemas(disk), LAMBDA schema : schema.pyFile = PyFileOf(script))

IsInternal(definition) == definition.file[1] = Resources

MayCreateEffect(disk, effects, message) ==
    LET schemas == SchemasFor(disk, message.script.string)
        name    == message.name.string
    IN /\ DOMAIN message.args.object # {}
       /\ schemas # <<>> /\ IsValid(message.args, Head(schemas).schema)
       /\ EffectPaths # <<>>
       /\ name \notin BadNames
       /\ name \in DOMAIN effects => ~IsInternal(effects[name])

(* writeJson: the file of the effect of that name is overwritten; if there *)
(* is none, a new file gets a name that no file in the directory has.      *)
FileWritten(disk, effects, message) ==
    LET name  == message.name.string
        known == name \in DOMAIN effects
        path  == IF known THEN effects[name].file[1] ELSE EffectPaths[1]
        files == disk[path].effects
        json  == Obj(Restrict(message, {"name", "script", "args"}))
        base  == CHOOSE b \in {<<name, n>> : n \in 0 .. Len(files)} :
                     \A i \in DOMAIN files : files[i].base # b
        place == CHOOSE i \in DOMAIN files : files[i].base = effects[name].file[2]
    IN IF known THEN [disk EXCEPT ![path].effects[place].json = json]
       ELSE IF path \notin DOMAIN disk THEN disk
       ELSE [disk EXCEPT ![path].effects = Append(@, EffectFile(base, json))]

MayDeleteEffect(disk, effects, name) ==
    /\ name \in DOMAIN effects
    /\ ~IsInternal(effects[name])
    /\ \E i \in DOMAIN disk[effects[name].file[1]].effects :
           disk[effects[name].file[1]].effects[i].base = effects[name].file[2]

FileRemoved(disk, definition) ==
    [disk EXCEPT ![definition.file[1]].effects =
        SelectSeq(@, LAMBDA file : file.base # definition.file[2])]

==============================================================================
