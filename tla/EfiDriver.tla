------------------------------ MODULE EfiDriver ------------------------------
(***************************************************************************)
(* gnu-efi's resident driver and the program that uses it (apps/drv0.c,    *)
(* apps/drv0_use.c): a protocol whose functions and counter lie in an      *)
(* image, and that the image takes back before it is gone.  A shell runs   *)
(* one command after another; any call of the firmware may be refused.     *)
(***************************************************************************)
EXTENDS Integers, Sequences, FiniteSets, SequencesExt

CONSTANTS
  Images,           \* handles of the driver's images
  MaxCommands,
  MaxDriverRefusals

VARIABLES
  resident,    \* images in memory
  instances,   \* handles with the protocol, in the order in which the firmware has them
  Counter,     \* of each image
  user,        \* drv0_use: what it is doing, with which Handles, and the numbers it showed, 0 for
               \* an instance it skipped
  commands, driver_refusals,
  hellos,      \* history: how often each image was told to say hello since it was loaded
  forgotten    \* history: images that are gone and whose protocol is not
driver_vars == <<resident, instances, Counter, user, commands, driver_refusals, hellos, forgotten>>

DriverInit ==
  /\ resident = {} /\ instances = << >>
  /\ Counter = [image \in Images |-> 0]
  /\ user = [at |-> "none", Handles |-> << >>, shown |-> << >>]
  /\ commands = 0 /\ driver_refusals = 0
  /\ hellos = [image \in Images |-> 0] /\ forgotten = {}

Command == user.at = "none" /\ commands < MaxCommands /\ commands' = commands + 1
DriverRefused(is_refused) ==
  /\ is_refused => driver_refusals < MaxDriverRefusals
  /\ driver_refusals' = driver_refusals + (IF is_refused THEN 1 ELSE 0)

-------------------------------------------------------------------------------
\* A new image's handle runs drv0's efi_main: its counter is set, the handle's own
\* loaded-image protocol is opened, and the protocol installed.  If one of the two fails
\* the firmware takes the image out again.
load_driver(image) ==
  /\ Command /\ image \notin resident \union ToSet(instances)
  /\ Counter' = [Counter EXCEPT ![image] = 0]
  /\ hellos' = [hellos EXCEPT ![image] = 0]
  /\ \/ /\ DriverRefused(FALSE)
        /\ resident' = resident \union {image}
        /\ instances' = Append(instances, image)
     \/ DriverRefused(TRUE) /\ UNCHANGED <<resident, instances>>
  /\ UNCHANGED <<user, forgotten>>

\* Whether the protocol could be uninstalled is not looked at: the callback succeeds.
Drv0Unload(image) ==
  \/ /\ DriverRefused(FALSE) /\ UNCHANGED forgotten
     /\ \E n \in DOMAIN instances : instances[n] = image /\ instances' = RemoveAt(instances, n)
  \/ DriverRefused(TRUE) /\ forgotten' = forgotten \union {image} /\ UNCHANGED instances

unload_driver(image) ==
  /\ Command /\ image \in resident
  /\ Drv0Unload(image)
  /\ resident' = resident \ {image}
  /\ UNCHANGED <<Counter, user, hellos>>

-------------------------------------------------------------------------------
\* drv0_use's efi_main, up to its loop: no handle is an error as well.
locate_drivers ==
  /\ Command
  /\ \/ /\ instances # << >> /\ DriverRefused(FALSE)
        /\ user' = [at |-> "playing", Handles |-> instances, shown |-> << >>]
     \/ DriverRefused(instances # << >>) /\ UNCHANGED user
  /\ UNCHANGED <<resident, instances, Counter, hellos, forgotten>>

Drv0SayHello(image) == Counter' = [Counter EXCEPT ![image] = @ + 1]
Drv0GetNumberOfHello(image) == Counter'[image]

\* One round of the loop: an instance that does not open is skipped, and one whose image
\* is gone is code that is not there.
PlayWithGnuEfiAppsDrv0Protocol ==
  /\ user.at = "playing" /\ user.Handles # << >>
  /\ LET image == Head(user.Handles)
         play(as) ==
           user' = [user EXCEPT !.Handles = Tail(@), !.shown = Append(@, [image |-> image, number |-> as])]
     IN  \/ DriverRefused(TRUE) /\ play(0) /\ UNCHANGED <<Counter, hellos>>
         \/ /\ DriverRefused(FALSE) /\ image \in resident
            /\ Drv0SayHello(image) /\ play(Drv0GetNumberOfHello(image))
            /\ hellos' = [hellos EXCEPT ![image] = @ + 1]
         \/ /\ DriverRefused(FALSE) /\ image \notin resident
            /\ user' = [user EXCEPT !.at = "lost"] /\ UNCHANGED <<Counter, hellos>>
  /\ UNCHANGED <<resident, instances, commands, forgotten>>

drivers_played ==
  /\ user.at = "playing" /\ user.Handles = << >>
  /\ user' = [user EXCEPT !.at = "none"]
  /\ UNCHANGED <<resident, instances, Counter, commands, driver_refusals, hellos, forgotten>>

DriverNext ==
  \/ \E image \in Images : load_driver(image) \/ unload_driver(image)
  \/ locate_drivers \/ PlayWithGnuEfiAppsDrv0Protocol \/ drivers_played

DriverSpec == DriverInit /\ [][DriverNext]_driver_vars

-------------------------------------------------------------------------------
\* A program that uses the driver finds the images that are there, all of them and in
\* order, and shows for each how often that one was greeted since it was loaded.  It is
\* lost only if an image went whose protocol the firmware would not take out.
InstancesReached ==
  /\ ToSet(instances) = resident \union forgotten
  /\ user.at = "lost" => Head(user.Handles) \in forgotten
  /\ user.at = "playing" =>
       /\ [n \in DOMAIN user.shown |-> user.shown[n].image] \o user.Handles = instances
       /\ \A n \in DOMAIN user.shown :
            user.shown[n].number # 0 => user.shown[n].number = hellos[user.shown[n].image]
===============================================================================
