------------------------------- MODULE Placement -------------------------------
(* How the objects of an embedded symbol are moved to where the component is  *)
(* when they are saved in a schematic file, and back when they are read       *)
(* (gaf/plainformat.py), and the ripper direction of a bus, which depends on  *)
(* where components are (gaf/plainwrite.py).                                  *)
(*                                                                            *)
(* A placement is what a component's data says of it: position, angle, mirror.*)
EXTENDS ObjectData

Orientation == [angle : {0, 90, 180, 270}, mirror : {0, 1}]

\* Mutant of rotate: the point is mirrored after it has been turned.
rotate_mirror_last(p, x, y) ==
  LET at == CASE p.angle = 0   -> << x,  y>>
              [] p.angle = 90  -> <<-y,  x>>
              [] p.angle = 180 -> <<-x, -y>>
              [] p.angle = 270 -> << y, -x>>
  IN IF p.mirror = 0 THEN at ELSE <<-at[1], at[2]>>

rotate(p, x, y) ==
  IF p.mirror = 0
  THEN CASE p.angle = 0   -> << x,  y>>
         [] p.angle = 90  -> <<-y,  x>>
         [] p.angle = 180 -> <<-x, -y>>
         [] p.angle = 270 -> << y, -x>>
  ELSE CASE p.angle = 0   -> <<-x,  y>>
         [] p.angle = 90  -> <<-y, -x>>
         [] p.angle = 180 -> << x, -y>>
         [] p.angle = 270 -> << y,  x>>

unrotate(p, x, y) ==
  IF p.mirror = 0
  THEN CASE p.angle = 0   -> << x,  y>>
         [] p.angle = 90  -> << y, -x>>
         [] p.angle = 180 -> <<-x, -y>>
         [] p.angle = 270 -> <<-y,  x>>
  ELSE rotate(p, x, y)      \* a reflection undoes itself

\* The lower left corner of a rectangle is another one after it is turned.
rotate_rect(p, x, y, width, height) ==
  IF p.mirror = 0
  THEN CASE p.angle = 0   -> <<x, y, width, height>>
         [] p.angle = 90  -> <<-y - height, x, height, width>>
         [] p.angle = 180 -> <<-x - width, -y - height, width, height>>
         [] p.angle = 270 -> <<y, -x - width, height, width>>
  ELSE CASE p.angle = 0   -> <<-x - width, y, width, height>>
         [] p.angle = 90  -> <<-y - height, -x - width, height, width>>
         [] p.angle = 180 -> <<x, -y - height, width, height>>
         [] p.angle = 270 -> <<y, x, height, width>>

unrotate_rect(p, x, y, width, height) ==
  IF p.mirror = 0
  THEN CASE p.angle = 0   -> <<x, y, width, height>>
         [] p.angle = 90  -> <<y, -x - width, height, width>>
         [] p.angle = 180 -> <<-x - width, -y - height, width, height>>
         [] p.angle = 270 -> <<-y - height, x, height, width>>
  ELSE rotate_rect(p, x, y, width, height)

\* Mirroring a text swaps left and right in its own coordinates, where it is
\* turned by `angle' degrees.
MirroredAlignment(alignment, angle) ==
  LET v_align == alignment % 3
  IN IF angle % 180 = 90 THEN (alignment - v_align) + (2 - v_align)
                         ELSE 6 - (alignment - v_align) + v_align

translate(o, dx, dy) ==
  IF o.type = "path" THEN o      \* not supported
  ELSE [o EXCEPT !.pos_x = @ + dx, !.pos_y = @ + dy]

\* The object with its point, vector or rectangle turned around the origin, or back.
TurnedShape(o, p, back) ==
  LET Point(x, y) == IF back THEN unrotate(p, x, y) ELSE rotate(p, x, y)
      Rectangle(x, y, w, h) == IF back THEN unrotate_rect(p, x, y, w, h)
                                       ELSE rotate_rect(p, x, y, w, h)
  IN
  CASE o.type = "path" -> o
    [] o.type \in {"box", "picture"} ->
         LET at == Rectangle(o.pos_x, o.pos_y, o.size_x, o.size_y)
         IN [o EXCEPT !.pos_x = at[1], !.pos_y = at[2],
                      !.size_x = at[3], !.size_y = at[4]]
    [] o.type \in {"line", "net"} ->
         LET at == Point(o.pos_x, o.pos_y)
             to == Point(o.size_x, o.size_y)
         IN [o EXCEPT !.pos_x = at[1], !.pos_y = at[2],
                      !.size_x = to[1], !.size_y = to[2]]
    [] OTHER ->
         LET at == Point(o.pos_x, o.pos_y)
         IN [o EXCEPT !.pos_x = at[1], !.pos_y = at[2]]

transform(o, p) ==
  LET moved == translate(TurnedShape(o, p, FALSE), p.pos_x, p.pos_y)
      flip == p.mirror = 1
  IN CASE o.type = "arc" ->
            [moved EXCEPT !.startangle = ((IF flip THEN 180 - @ ELSE @) + p.angle) % 360,
                          !.sweepangle = IF flip THEN -@ ELSE @]
       [] o.type \in {"component", "picture"} ->
            [moved EXCEPT !.angle = (IF flip THEN p.angle - @ ELSE p.angle + @) % 360,
                          !.mirror = (@ + p.mirror) % 2]
       [] o.type = "text" ->
            [moved EXCEPT !.alignment = IF flip THEN MirroredAlignment(@, o.angle) ELSE @,
                          !.angle = (@ + p.angle) % 360]
       [] OTHER -> moved

untransform(o, p) ==
  LET moved == TurnedShape(translate(o, -p.pos_x, -p.pos_y), p, TRUE)
      flip == p.mirror = 1
  IN CASE o.type = "arc" ->
            [moved EXCEPT !.startangle = (IF flip THEN 180 - (@ - p.angle)
                                                  ELSE @ - p.angle) % 360,
                          !.sweepangle = IF flip THEN -@ ELSE @]
       [] o.type \in {"component", "picture"} ->
            [moved EXCEPT !.angle = (IF flip THEN p.angle - @ ELSE @ - p.angle) % 360,
                          !.mirror = (@ + p.mirror) % 2]
       [] o.type = "text" ->
            [moved EXCEPT !.alignment = IF flip
                                        THEN MirroredAlignment(@, o.angle - p.angle)
                                        ELSE @,
                          !.angle = (@ - p.angle) % 360]
       [] OTHER -> moved

-----------------------------------------------------------------------------
(* The rippers on a bus, which the reader ignores. *)

Between(a, from, length) == IF length >= 0 THEN a \in from .. from + length
                                           ELSE a \in from + length .. from

\* Where the ripper meets the bus.  RipperReach is 200 in the code.
RipperEnd(ripper, reach) ==
  <<ripper.pos_x + (IF ripper.angle \in {0, 270} THEN reach ELSE -reach),
    ripper.pos_y + (IF ripper.angle \in {0, 90} THEN reach ELSE -reach)>>

bus_ripper_direction(bus, rippers, reach) ==
  LET OnVertical(r) ==
        /\ bus.size_x = 0 /\ RipperEnd(r, reach)[1] = bus.pos_x
        /\ Between(RipperEnd(r, reach)[2], bus.pos_y, bus.size_y)
      OnHorizontal(r) ==
        /\ bus.size_y = 0 /\ RipperEnd(r, reach)[2] = bus.pos_y
        /\ Between(RipperEnd(r, reach)[1], bus.pos_x, bus.size_x)
      found_pos == \E r \in rippers : \/ OnVertical(r) /\ r.angle \in {0, 90}
                                      \/ OnHorizontal(r) /\ r.angle \in {0, 270}
      found_neg == \E r \in rippers : \/ OnVertical(r) /\ r.angle \notin {0, 90}
                                      \/ OnHorizontal(r) /\ r.angle \notin {0, 270}
  IN CASE found_neg /\ found_pos -> 0
       [] found_neg -> -1
       [] found_pos -> 1
       [] OTHER -> 0
=============================================================================
