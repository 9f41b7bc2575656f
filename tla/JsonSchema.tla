------------------------------ MODULE JsonSchema -----------------------------
(***************************************************************************)
(* The checker that validates a JSON value against a schema                *)
(* (QJsonSchemaChecker), which the JSON server applies to every request    *)
(* and the effect engine to every effect file.                             *)
(*                                                                         *)
(* A schema is a record of its attributes.  Those that the checker knows   *)
(* and ignores (title, default, propertyOrder and others) are left out,    *)
(* and no schema has one that it does not know.                            *)
(***************************************************************************)
EXTENDS JsonValues

HasType(v, type) == DOMAIN v = {type}

(* QJsonValue::toDouble, which is 0 for what is not a number.              *)
ToDouble(v) == IF HasType(v, "number") THEN v.number ELSE 0

(* An "integer" may be anything whose toDouble is whole, a text included,  *)
(* and a type that is not listed (schemas say "bool") is not checked.      *)
CheckType(v, type) ==
    CASE type \in {"string", "enum"}                      -> HasType(v, "string")
      [] type \in {"number", "double"}                    -> HasType(v, "number")
      [] type = "integer"                                 -> ToDouble(v) % 10 = 0
      [] type \in {"boolean", "object", "array", "null"} -> HasType(v, type)
      [] OTHER                                            -> TRUE

CheckAdditionalProperties(v, allowed, schema) ==
    \/ allowed
    \/ "properties" \in DOMAIN schema /\ DOMAIN v.object \subseteq DOMAIN schema.properties

CheckMinimum(v, minimum) == HasType(v, "number") /\ v.number >= minimum

CheckMaximum(v, maximum) == HasType(v, "number") /\ v.number <= maximum

CheckMinItems(v, minimum) == HasType(v, "array") /\ Len(v.array) >= minimum

CheckMaxItems(v, maximum) == HasType(v, "array") /\ Len(v.array) <= maximum

CheckUniqueItems(v, unique) ==
    HasType(v, "array") /\ (unique => IsInjective(v.array))

CheckEnum(v, values) == \E i \in DOMAIN values : values[i] = v

IsRequired(schema) == "required" \in DOMAIN schema /\ schema.required

(* validate: every attribute of the schema is checked, and one error is    *)
(* enough.  The "required" of a property matters where it is missing.      *)
RECURSIVE Validate(_, _, _)

CheckProperties(v, properties, ignoreRequired) ==
    \A p \in DOMAIN properties :
        IF p \in DOMAIN v.object
          THEN Validate(v.object[p], properties[p], ignoreRequired)
          ELSE IsRequired(properties[p]) => ignoreRequired

CheckItems(v, schema, ignoreRequired) ==
    \A i \in DOMAIN v.array : Validate(v.array[i], schema, ignoreRequired)

Validate(v, schema, ignoreRequired) ==
    \A attribute \in DOMAIN schema :
        CASE attribute = "type"        -> CheckType(v, schema.type)
          [] attribute = "properties"  ->
                 HasType(v, "object") /\ CheckProperties(v, schema.properties, ignoreRequired)
          [] attribute = "additionalProperties" ->
                 /\ HasType(v, "object")
                 /\ CheckAdditionalProperties(v, schema.additionalProperties, schema)
          [] attribute = "minimum"     -> CheckMinimum(v, schema.minimum)
          [] attribute = "maximum"     -> CheckMaximum(v, schema.maximum)
          [] attribute = "items"       ->
                 HasType(v, "array") /\ CheckItems(v, schema.items, ignoreRequired)
          [] attribute = "minItems"    -> CheckMinItems(v, schema.minItems)
          [] attribute = "maxItems"    -> CheckMaxItems(v, schema.maxItems)
          [] attribute = "uniqueItems" -> CheckUniqueItems(v, schema.uniqueItems)
          [] attribute = "enum"        -> CheckEnum(v, schema.enum)
          [] attribute = "required"    -> TRUE

(* checkJson and loadEffectDefinition validate with ignoreRequired FALSE.  *)
CheckJson(v, schema) == Validate(v, schema, FALSE)

==============================================================================
