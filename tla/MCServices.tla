---------------------------- MODULE MCServices ----------------------------
(* The parts of an engine that do not touch each other, in one run: `part` *)
(* is the one that moves, and the others stay as they begin.               *)
EXTENDS Lockable, Cron, Config, Scripting, EngineStart, DateIterator, ConfigEntity,
        EntityMethods, Resources

VARIABLE part

Steps == {<<0, 0, 1>>, <<0, 1, 0>>, <<1, 0, 0>>}
AllServices == {"mongo", "sequence", "gql", "nats", "natsSequence"}

Declared(a, c, h, r) == [auto |-> a, checked |-> c, hooked |-> h, reference |-> r]
FourDeclarations == {Declared(TRUE, TRUE, TRUE, "required"), Declared(FALSE, TRUE, FALSE, "nullable"),
                     Declared(FALSE, FALSE, TRUE, "required"), Declared(TRUE, FALSE, FALSE, "inherited")}
Sent(i, r) == [id |-> i, ref |-> r]
TwoBulks == {<<Sent(2, r), Sent(1, Unknown)>> : r \in Reference}
            \cup {<<Sent(1, r), Sent(0, r)>> : r \in Reference}
AnyParents == [ResourceKey -> ResourceKey \cup {OwnPackage, OtherPackage}]

ServicesInit ==
  /\ part \in {"lockable", "cron", "config", "scripting", "start", "dates", "entity", "methods", "resources"}
  /\ LockInit /\ CronInit /\ ScriptInit /\ StartInit /\ DateInit
  /\ ConfigEntityInit /\ (part # "entity" => document = [f \in Field |-> Default])
  /\ MethodsInit /\ (part # "methods" => declared = Declared(TRUE, TRUE, TRUE, "required"))
  /\ ResourcesInit /\ (part # "resources" => parent = [k \in ResourceKey |-> OwnPackage])
  /\ ConfigInit /\ (part # "config" => stored = [p \in Provider |-> Unset])

LockStep ==
  /\ part = "lockable" /\ LockNext
  /\ UNCHANGED <<part, cronVars, configVars, scriptVars, startVars, dateVars, configEntityVars, methodVars, resourceVars>>
CronStep ==
  /\ part = "cron" /\ CronNext
  /\ UNCHANGED <<part, lockVars, configVars, scriptVars, startVars, dateVars, configEntityVars, methodVars, resourceVars>>
ConfigStep ==
  /\ part = "config" /\ ConfigNext
  /\ UNCHANGED <<part, lockVars, cronVars, scriptVars, startVars, dateVars, configEntityVars, methodVars, resourceVars>>
ScriptStep ==
  /\ part = "scripting" /\ ScriptNext
  /\ UNCHANGED <<part, lockVars, cronVars, configVars, startVars, dateVars, configEntityVars, methodVars, resourceVars>>
StartStep ==
  /\ part = "start" /\ StartNext
  /\ UNCHANGED <<part, lockVars, cronVars, configVars, scriptVars, dateVars, configEntityVars, methodVars, resourceVars>>
DateStep ==
  /\ part = "dates" /\ DateNext
  /\ UNCHANGED <<part, lockVars, cronVars, configVars, scriptVars, startVars, configEntityVars, methodVars, resourceVars>>
ConfigEntityStep ==
  /\ part = "entity" /\ ConfigEntityNext
  /\ UNCHANGED <<part, lockVars, cronVars, configVars, scriptVars, startVars, dateVars, methodVars, resourceVars>>
MethodStep ==
  /\ part = "methods" /\ MethodsNext
  /\ UNCHANGED <<part, lockVars, cronVars, configVars, scriptVars, startVars, dateVars, configEntityVars, resourceVars>>
ResourceStep ==
  /\ part = "resources" /\ ResourcesNext
  /\ UNCHANGED <<part, lockVars, cronVars, configVars, scriptVars, startVars, dateVars, configEntityVars, methodVars>>

ServicesNext == LockStep \/ CronStep \/ ConfigStep \/ ScriptStep \/ StartStep \/ DateStep \/ ConfigEntityStep
                \/ MethodStep \/ ResourceStep

servicesVars == <<part, lockVars, cronVars, configVars, scriptVars, startVars, dateVars, configEntityVars,
                 methodVars, resourceVars>>

ServicesSpec == ServicesInit /\ [][ServicesNext]_servicesVars
=============================================================================
