-------------------------------- MODULE Config --------------------------------
(***************************************************************************)
(* The configuration file and its two readers, each written from its own   *)
(* source: load_config() of json-modbus-server.c and config_load() of      *)
(* src/config/config_loader.c.  A file is what cJSON_GetObjectItem finds   *)
(* in it, key by key.  A mode is the places where its first "tcp" and its  *)
(* first "rtu" end, 0 for none; the name of the serial device is its       *)
(* length.                                                                 *)
(***************************************************************************)
EXTENDS Integers, Sequences

CONSTANT File   \* the files the readers may be given

Absent == [kind |-> "absent"]

\* What cJSON says of an item.
IsString(j) == j.kind = "string"
IsNumber(j) == j.kind = "number"
IsObject(j) == j.kind = "object"
IsArray(j) == j.kind = "array"

\* j->valueint of any item: 1 for true, 0 for what is no number.
valueint(j) == CASE IsNumber(j) -> j.int [] j.kind = "true" -> 1 [] OTHER -> 0

\* A file is "missing", or "malformed" (what the 2047 bytes of buf hold of a
\* longer one is malformed too), or "ok": it parses.
Readable(f) == f.state = "ok"

\* A word that is found ends somewhere, and a name has a length.
ASSUME ConfigAssumption ==
  \A f \in File : Readable(f) =>
    /\ IsString(f.mode) => f.mode.tcp \in Nat /\ f.mode.rtu \in Nat
    /\ IsObject(f.serial) /\ IsString(f.serial.device) => f.serial.device.text \in Nat

VARIABLES
  settings,  \* the file that is there
  memory,    \* the 64th byte of serial_device in the caller's ModbusConfig: 0 or not
  loaded,    \* what the reader returned, 1 while it has not run
  config     \* the settings it left

configVars == <<settings, memory, loaded, config>>

-----------------------------------------------------------------------------
(* json-modbus-server.c.  serial_device is the number of characters before *)
(* its first NUL.                                                          *)

Globals ==
  [enable_tcp |-> FALSE, enable_rtu |-> FALSE, tcp_port |-> 1502, unit_id |-> 1,
   serial_device |-> 12, baudrate |-> 9600, parity |-> "N", data_bits |-> 8, stop_bits |-> 1,
   coils |-> <<0, 0>>, input_bits |-> <<0, 0>>,
   holding_regs |-> <<0, 0>>, input_regs |-> <<0, 0>>]

\* strstr(mode, ...) sees the 15 characters that strncpy kept.
InMode(end) == end \in 1 .. 15

\* Mutant of object_or_array: the array format is forgotten.
object_or_array_ObjectOnly(j, old) ==
  IF IsObject(j) /\ IsNumber(j.start) /\ IsNumber(j.count)
  THEN <<j.start.int, j.count.int>> ELSE old

\* The block that load_config() repeats for each area.
object_or_array(j, old) ==
  IF IsObject(j)
  THEN IF IsNumber(j.start) /\ IsNumber(j.count) THEN <<j.start.int, j.count.int>> ELSE old
  ELSE IF IsArray(j) /\ Len(j.items) > 1 THEN <<valueint(j.items[1]), valueint(j.items[2])>>
  ELSE old

\* The result, and the globals after it.  serial_device is 64 bytes that start
\* as a shorter name and zeros, of which strncpy writes 63.
load_config(f) ==
  LET number(j, old) == IF IsNumber(j) THEN j.int ELSE old
      of_serial(key, kind, old) ==
        IF IsObject(f.serial) /\ f.serial[key].kind = kind
        THEN IF kind = "string" THEN f.serial[key].text ELSE f.serial[key].int
        ELSE old
      device == of_serial("device", "string", Globals.serial_device)
  IN  IF ~Readable(f) THEN <<-1, Globals>>
      ELSE <<0,
        [enable_tcp |-> IF IsString(f.mode) THEN InMode(f.mode.tcp) ELSE Globals.enable_tcp,
         enable_rtu |-> IF IsString(f.mode) THEN InMode(f.mode.rtu) ELSE Globals.enable_rtu,
         tcp_port |-> number(f.tcp_port, Globals.tcp_port),
         unit_id  |-> number(f.unit_id, Globals.unit_id),
         serial_device |-> IF device > 63 THEN 63 ELSE device,
         baudrate  |-> of_serial("baudrate", "number", Globals.baudrate),
         parity    |-> of_serial("parity", "string", Globals.parity),
         data_bits |-> of_serial("data_bits", "number", Globals.data_bits),
         stop_bits |-> of_serial("stop_bits", "number", Globals.stop_bits),
         coils        |-> object_or_array(f.coils, Globals.coils),
         input_bits   |-> object_or_array(f.input_bits, Globals.input_bits),
         holding_regs |-> object_or_array(f.holding_registers, Globals.holding_regs),
         input_regs   |-> object_or_array(f.input_registers, Globals.input_regs)]>>

-----------------------------------------------------------------------------
(* config_loader.c.  The ModbusConfig belongs to the caller, and each key  *)
(* that is found is assigned in turn.                                      *)

\* Set defaults.
Defaults ==
  [coils |-> <<0, 0>>, input_bits |-> <<0, 0>>, holding_regs |-> <<0, 0>>, input_regs |-> <<0, 0>>,
   enable_tcp |-> TRUE, enable_rtu |-> FALSE, tcp_port |-> 1502, unit_id |-> 1,
   serial_device |-> 12, baudrate |-> 9600, parity |-> "N", data_bits |-> 8, stop_bits |-> 1]

\* strncpy(config->serial_device, name, 63): a name of 63 characters or more is
\* followed by what the byte behind it held, 64 standing for no NUL at all.
Copied(length, byte) ==
  CASE length < 63 -> length
    [] length >= 63 /\ byte = 0 -> 63
    [] OTHER -> 64

ParseMode(c, root) ==
  IF IsString(root.mode)
  THEN [c EXCEPT !.enable_tcp = root.mode.tcp # 0, !.enable_rtu = root.mode.rtu # 0]
  ELSE c

ParseNumber(c, j, key) == IF IsNumber(j) THEN [c EXCEPT ![key] = j.int] ELSE c

ParseSerial(c, j, byte) ==
  IF ~IsObject(j) THEN c
  ELSE LET p1 == IF IsString(j.device)
                 THEN [c EXCEPT !.serial_device = Copied(j.device.text, byte)] ELSE c
           p2 == ParseNumber(p1, j.baudrate, "baudrate")
           p3 == IF IsString(j.parity) THEN [p2 EXCEPT !.parity = j.parity.text] ELSE p2
           p4 == ParseNumber(p3, j.data_bits, "data_bits")
       IN  ParseNumber(p4, j.stop_bits, "stop_bits")

\* The macro PARSE_REG_CONFIG.
ParseRegs(c, j, key) ==
  CASE IsObject(j) /\ IsNumber(j.start) /\ IsNumber(j.count) ->
         [c EXCEPT ![key] = <<j.start.int, j.count.int>>]
    [] IsArray(j) /\ Len(j.items) >= 2 ->
         [c EXCEPT ![key] = <<valueint(j.items[1]), valueint(j.items[2])>>]
    [] OTHER -> c

Parsed(root, byte) ==
  LET p1 == ParseMode(Defaults, root)
      p2 == ParseNumber(p1, root.tcp_port, "tcp_port")
      p3 == ParseNumber(p2, root.unit_id, "unit_id")
      p4 == ParseSerial(p3, root.serial, byte)
      p5 == ParseRegs(p4, root.coils, "coils")
      p6 == ParseRegs(p5, root.input_bits, "input_bits")
      p7 == ParseRegs(p6, root.holding_registers, "holding_regs")
  IN  ParseRegs(p7, root.input_registers, "input_regs")

\* A file that is missing leaves the defaults and is no error.
config_load(f, byte) ==
  CASE Readable(f)         -> <<0, Parsed(f, byte)>>
    [] f.state = "missing" -> <<0, Defaults>>
    [] OTHER               -> <<-1, Defaults>>

-----------------------------------------------------------------------------
ConfigInit ==
  /\ settings \in File
  /\ memory \in {0, 1}
  /\ loaded = 1
  /\ config = Globals

Load(result) ==
  /\ loaded = 1
  /\ loaded' = result[1]
  /\ config' = result[2]
  /\ UNCHANGED <<settings, memory>>

ConfigNext ==
  \/ Load(load_config(settings))
  \/ Load(config_load(settings, memory))

ConfigSpec == ConfigInit /\ [][ConfigNext]_configVars

\* Both readers see the same words in a mode of at most 15 characters.
ShortMode(f) == IsString(f.mode) /\ f.mode.tcp <= 15 /\ f.mode.rtu <= 15

\* The two readers are copies that must not drift: of a file that parses and
\* names its mode in the 15 characters main() keeps, either makes the same
\* settings, key by key and in both formats of a range, as long as the second
\* leaves the device name terminated (json-modbus-server.c:51-130,
\* config_loader.c:8-109).
LoadersAgree ==
  [][ConfigNext /\ Readable(settings) /\ ShortMode(settings)
     /\ config_load(settings, memory)[2].serial_device < 64
     => <<loaded', config'>> = config_load(settings, memory)]_configVars

=============================================================================
